---- MODULE Spec2Model ----
(***************************************************************************)
(* Model of the notes-api search engine (NoteResolver.searchNotes and its  *)
(* helpers) over the SQLite schema of DatabaseMigration.                   *)
(*                                                                         *)
(* Storage conventions used throughout:                                    *)
(*  - a joined row is a record [note, tag]; tag = NoTag is the NULL side   *)
(*    of a LEFT JOIN;                                                      *)
(*  - rows that compare equal on every ORDER BY term come out in scan      *)
(*    order (note_id, then tag_id), the order of the rowid b-trees;        *)
(*  - texts are sequences of characters so that MATCH is a real substring  *)
(*    test.                                                                *)
(***************************************************************************)
EXTENDS Integers, Sequences, FiniteSets, TLC

VARIABLES
    notes,      \* table note: note_id -> row
    nextId,     \* AUTOINCREMENT counter of table note
    noteTags,   \* table note_tag: set of <<note_id, tag_id>>
    fts,        \* note_fts5_index: rowid -> [title, body]
    req,        \* arguments of the latest searchNotes call
    ids,        \* Branch B: id list returned by fetchNoteIdsBySearchPhrase
    fetched,    \* Branch B: ids of the by-id row fetch, in fetch order
    result,     \* envelope returned by the latest searchNotes call
    pc,         \* position of the searchNotes call among its statements
    log,        \* storage statements the searchNotes call has issued
    total,      \* totalCount read by the count statement
    pgTotal,    \* pagination walk: totalCount
    pgLimit,    \* pagination walk: limit
    pgOffset,   \* pagination walk: current offset
    pgHas,      \* pagination walk: calcHasMorePages at the current offset
    matchPhrase,     \* match query: characters of the search phrase
    matchSql,        \* match query: text of the raw where clause built
    mappedFields,    \* projection: GraphQLMappedFields tree of a request
    populatedValues, \* projection: getAllNestedKeys(mappedFields)
    fieldValues,     \* projection: getFlattenFields(mappedFields)
    views,      \* table view: the view_id values stored
    nextViewId, \* AUTOINCREMENT counter of table view
    viewNotes,  \* table view_note: set of [view, note, displayOrder]
    ret,        \* answer of a mutation that is being sent to its caller
    tx          \* transaction of an association mutation and its position

vars == <<notes, nextId, noteTags, fts, req, ids, fetched, result,
          pc, log, total, pgTotal, pgLimit, pgOffset, pgHas,
          matchPhrase, matchSql, mappedFields, populatedValues, fieldValues,
          views, nextViewId, viewNotes, ret, tx>>

dbVars == <<notes, nextId, noteTags, fts>>
callVars == <<req, ids, fetched, result, pc, log, total>>
pgVars == <<pgTotal, pgLimit, pgOffset, pgHas>>
fnVars == <<matchPhrase, matchSql, mappedFields, populatedValues, fieldValues>>
viewVars == <<views, nextViewId, viewNotes>>
writeVars == <<viewVars, ret, tx>>
utilVars == <<pgVars, fnVars, writeVars>>

----------------------------------------------------------------------------
(* Bounds *)

MaxNotes == 2
MaxLimit == 2
MaxOffset == 2
MaxTotal == 5
MaxPageSize == 3
MaxPhraseLen == 4

\* the pagination walk stops once the offset is past every page
WalkEnd == MaxTotal + MaxPageSize

----------------------------------------------------------------------------
(* Seeded lookup tables and the texts used as titles, bodies and phrases *)

Sources == {1, 2}
Languages == {1, 2}
Tags == {1, 2}
NoTag == 0

tagDisplayOrder == [t \in Tags |-> t]

Dates == 1 .. 3

\* the characters of the strings in use (TLC cannot index a string)
Chars(str) ==
    CASE str = "kiwi" -> <<"k", "i", "w", "i">>
      [] str = "pear" -> <<"p", "e", "a", "r">>
      [] str = "iwi" -> <<"i", "w", "i">>
      [] str = "wi" -> <<"w", "i">>

NoteInputs ==
    { [internalId |-> "n1", title |-> "kiwi", body |-> "pear",
       sourceId |-> 1, languageId |-> 2, date |-> 1],
      [internalId |-> "n2", title |-> "pear", body |-> "kiwi",
       sourceId |-> 2, languageId |-> 1, date |-> 2],
      [internalId |-> "n3", title |-> "pear", body |-> "pear",
       sourceId |-> 1, languageId |-> 2, date |-> 2],
      [internalId |-> "n4", title |-> "kiwi", body |-> "kiwi",
       sourceId |-> 1, languageId |-> 2, date |-> 3] }

TagLists == { <<>>, <<1>>, <<1, 2>> }

----------------------------------------------------------------------------
(* Generic helpers *)

Min(a, b) == IF a < b THEN a ELSE b

Range(s) == { s[i] : i \in DOMAIN s }

Slice(s, offset, limit) == SubSeq(s, offset + 1, Min(offset + limit, Len(s)))

RECURSIVE Dedup(_)
Dedup(s) ==
    IF s = <<>> THEN <<>>
    ELSE LET front == Dedup(SubSeq(s, 1, Len(s) - 1))
             last == s[Len(s)]
         IN IF last \in Range(front) THEN front ELSE Append(front, last)

Contains(text, phrase) ==
    LET t == Chars(text)
        p == Chars(phrase)
    IN \E i \in 1 .. (Len(t) - Len(p) + 1) : SubSeq(t, i, i + Len(p) - 1) = p

----------------------------------------------------------------------------
(* Optional arguments *)

Absent == [def |-> FALSE, val |-> {}]
AbsentSeq == [def |-> FALSE, val |-> <<>>]
AbsentStr == [def |-> FALSE, val |-> ""]
Given(v) == [def |-> TRUE, val |-> v]

NoCall == [def |-> FALSE]

\* { flatFields: [], nestedFields: {} }
NoFields == [flatFields |-> <<>>, nestedFields |-> <<>>]

\* no getAllNestedKeys call has returned
NoKeys == [def |-> FALSE, prefix |-> "", val |-> <<>>]

\* no getFlattenFields call has returned
NoValues ==
    [def |-> FALSE, prefix |-> "", rootIdFieldReplacement |-> "", val |-> <<>>]

\* no mutation answer is being sent
NoReturn == [def |-> FALSE]

\* no association mutation is running and no transaction is open
NoTx == [pc |-> "none", open |-> FALSE]

----------------------------------------------------------------------------
(* Pagination policy *)

\* mutant: "not on the last page" written with !== instead of <
calcHasMorePagesNotLast(totalCount, limit, offset) ==
    LET floorPages == totalCount \div limit
        totalPages == IF totalCount % limit # 0 THEN floorPages + 1
                      ELSE floorPages
        currentPage == (offset \div limit) + 1
    IN currentPage # totalPages

\* mutant: the partial last page is not counted
calcHasMorePagesFloor(totalCount, limit, offset) ==
    LET totalPages == totalCount \div limit
        currentPage == (offset \div limit) + 1
    IN currentPage < totalPages

\* mutant: the current page is compared with <=
calcHasMorePagesLeq(totalCount, limit, offset) ==
    LET floorPages == totalCount \div limit
        totalPages == IF totalCount % limit # 0 THEN floorPages + 1
                      ELSE floorPages
        currentPage == (offset \div limit) + 1
    IN currentPage <= totalPages

\* calcHasMorePages with pages counted from 0
calcHasMorePagesZeroBased(totalCount, limit, offset) ==
    LET floorPages == totalCount \div limit
        totalPages == IF totalCount % limit # 0 THEN floorPages + 1
                      ELSE floorPages
        currentPage == offset \div limit
    IN currentPage < totalPages

calcHasMorePages(totalCount, limit, offset) ==
    LET floorPages == totalCount \div limit
        totalPages == IF totalCount % limit # 0 THEN floorPages + 1
                      ELSE floorPages
        currentPage == (offset \div limit) + 1
    IN currentPage < totalPages

----------------------------------------------------------------------------
(* Storage: triggers and statements on note / note_tag / note_fts5_index *)

\* trigger note_after_insert
FtsInsert(index, rowid, title, body) ==
    [r \in (DOMAIN index) \cup {rowid} |->
        IF r = rowid THEN [title |-> title, body |-> body] ELSE index[r]]

\* a 'delete' command that leaves the entry in the index
FtsDeleteNothing(index, rowid) == index

\* the 'delete' command of triggers note_after_deleted / note_after_update
FtsDelete(index, rowid) ==
    [r \in (DOMAIN index) \ {rowid} |-> index[r]]

NoteRow(input) ==
    [internalId |-> input.internalId, title |-> input.title,
     body |-> input.body, source |-> input.sourceId,
     language |-> input.languageId, date |-> input.date]

\* unique index idx_note_internal_id
InternalIdFree(internalId, except) ==
    \A n \in (DOMAIN notes) \ except : notes[n].internalId # internalId

----------------------------------------------------------------------------
(* Filter composer: the filter object and the sorters built by searchNotes *)

\* the filter object without the language condition
FiltersNoLanguage(input) ==
    [fromDate |-> input.fromDate, toDate |-> input.toDate,
     source |-> input.sourceIds, language |-> Absent,
     tags |-> input.tagIds]

Filters(input) ==
    [fromDate |-> input.fromDate, toDate |-> input.toDate,
     source |-> input.sourceIds, language |-> input.languageIds,
     tags |-> input.tagIds]

SorterFor(value) ==
    CASE value.field = "date" -> [col |-> "date", dir |-> value.sort]
      [] value.field = "languageId" -> [col |-> "language", dir |-> value.sort]
      [] value.field = "sourceId" -> [col |-> "source", dir |-> value.sort]

\* the sorters with the pairs of the sort specification taken last to first
SortersReversed(sortInput, wantTags) ==
    IF sortInput.def
    THEN [i \in 1 .. Len(sortInput.val) |->
            SorterFor(sortInput.val[Len(sortInput.val) + 1 - i])]
    ELSE IF wantTags
         THEN << [col |-> "date", dir |-> "asc"],
                 [col |-> "tagDisplayOrder", dir |-> "asc"] >>
         ELSE << [col |-> "date", dir |-> "asc"] >>

Sorters(sortInput, wantTags) ==
    IF sortInput.def
    THEN [i \in 1 .. Len(sortInput.val) |-> SorterFor(sortInput.val[i])]
    ELSE IF wantTags
         THEN << [col |-> "date", dir |-> "asc"],
                 [col |-> "tagDisplayOrder", dir |-> "asc"] >>
         ELSE << [col |-> "date", dir |-> "asc"] >>

----------------------------------------------------------------------------
(* Query builder: FROM note [LEFT JOIN note_tag, tag] WHERE .. ORDER BY .. *)

OrdersByTag(sorters) ==
    \E i \in DOMAIN sorters : sorters[i].col = "tagDisplayOrder"

\* the rows of note, left-joined to note_tag when the query touches tags
FromRows(joinTags) ==
    IF joinTags
    THEN { [note |-> nt[1], tag |-> nt[2]] : nt \in noteTags }
         \cup { [note |-> n, tag |-> NoTag] :
                  n \in { m \in DOMAIN notes :
                            \A nt \in noteTags : nt[1] # m } }
    ELSE { [note |-> n, tag |-> NoTag] : n \in DOMAIN notes }

\* the WHERE clause with an exclusive upper date bound
RowMatchesBefore(row, f) ==
    /\ notes[row.note].date >= f.fromDate
    /\ notes[row.note].date < f.toDate
    /\ f.source.def => notes[row.note].source \in f.source.val
    /\ f.language.def => notes[row.note].language \in f.language.val
    /\ f.tags.def => (row.tag # NoTag /\ row.tag \in f.tags.val)

RowMatches(row, f) ==
    /\ notes[row.note].date >= f.fromDate
    /\ notes[row.note].date <= f.toDate
    /\ f.source.def => notes[row.note].source \in f.source.val
    /\ f.language.def => notes[row.note].language \in f.language.val
    /\ f.tags.def => (row.tag # NoTag /\ row.tag \in f.tags.val)

\* value of an ORDER BY term on a joined row; NULL (0) sorts first
OrderKey(row, col) ==
    CASE col = "date" -> notes[row.note].date
      [] col = "language" -> notes[row.note].language
      [] col = "source" -> notes[row.note].source
      [] col = "tagDisplayOrder" ->
            IF row.tag = NoTag THEN 0 ELSE tagDisplayOrder[row.tag]

\* the indexes a scan of note can follow when ORDER BY leaves rows untied:
\* the primary key (no further term) or idx_note_date
AccessPaths == { <<>>, << [col |-> "date", dir |-> "asc"] >> }

\* the row order of a statement: its ORDER BY terms, then the access path
OrderBy(sorters, path) == sorters \o path

ScanBefore(r1, r2) ==
    \/ r1.note < r2.note
    \/ r1.note = r2.note /\ r1.tag < r2.tag

RECURSIVE OrderedBefore(_, _, _, _)
OrderedBefore(r1, r2, sorters, i) ==
    IF i > Len(sorters) THEN ScanBefore(r1, r2)
    ELSE LET k1 == OrderKey(r1, sorters[i].col)
             k2 == OrderKey(r2, sorters[i].col)
         IN IF k1 = k2 THEN OrderedBefore(r1, r2, sorters, i + 1)
            ELSE IF sorters[i].dir = "asc" THEN k1 < k2 ELSE k1 > k2

RECURSIVE SortRows(_, _)
SortRows(rows, sorters) ==
    IF rows = {} THEN <<>>
    ELSE LET first == CHOOSE r \in rows :
                         \A o \in rows \ {r} : OrderedBefore(r, o, sorters, 1)
         IN <<first>> \o SortRows(rows \ {first}, sorters)

NoteIdsOf(rowSeq) == [i \in 1 .. Len(rowSeq) |-> rowSeq[i].note]

----------------------------------------------------------------------------
(* Result hydration: joined rows are merged into one entity per note *)

Undefined == [id |-> 0, tags |-> <<>>]

TagsOfRows(rowSeq, id) ==
    LET sel == SelectSeq(rowSeq, LAMBDA r : r.note = id /\ r.tag # NoTag)
    IN [i \in 1 .. Len(sel) |-> sel[i].tag]

Hydrate(rowSeq, wantTags) ==
    LET order == Dedup(NoteIdsOf(rowSeq))
    IN [i \in 1 .. Len(order) |->
          [id |-> order[i],
           tags |-> IF wantTags THEN TagsOfRows(rowSeq, order[i]) ELSE <<>>]]

ItemIds(items) == [i \in 1 .. Len(items) |-> items[i].id]

----------------------------------------------------------------------------
(* Branch A: _qb.where(filters).offset().limit().getResultAndCount()       *)
(* With a to-many join in the query the builder pages over note ids in a   *)
(* GROUP BY sub-query and counts DISTINCT note ids; the outer query then   *)
(* selects the page's notes with all their joined rows.                    *)

\* the same query with LIMIT / OFFSET applied to the joined rows
getResultAndCountRowPaging(f, sorters, wantTags, limit, offset) ==
    LET toMany == wantTags \/ f.tags.def \/ OrdersByTag(sorters)
        matching == { r \in FromRows(toMany) : RowMatches(r, f) }
        totalCount == Cardinality({ r.note : r \in matching })
        sorted == SortRows(matching, sorters)
    IN [items |-> Hydrate(Slice(sorted, offset, limit), wantTags),
        totalCount |-> totalCount]

getResultAndCount(f, sorters, wantTags, limit, offset) ==
    LET toMany == wantTags \/ f.tags.def \/ OrdersByTag(sorters)
        matching == { r \in FromRows(toMany) : RowMatches(r, f) }
        totalCount == Cardinality({ r.note : r \in matching })
        sorted == SortRows(matching, sorters)
        pageIds == IF toMany
                   THEN Slice(Dedup(NoteIdsOf(sorted)), offset, limit)
                   ELSE NoteIdsOf(Slice(sorted, offset, limit))
        outer == { r \in FromRows(toMany) : r.note \in Range(pageIds) }
    IN [items |-> Hydrate(SortRows(outer, sorters), wantTags),
        totalCount |-> totalCount]

----------------------------------------------------------------------------
(* Branch B: text-match resolver and by-id row fetch *)

\* note_fts5_index MATCH 'title:"<phrase>" * OR body:"<phrase>" * ' (trigram)
\* a match expression that looks at the title column only
FtsMatchTitle(entry, phrase) ==
    Contains(entry.title, phrase)

FtsMatch(entry, phrase) ==
    Contains(entry.title, phrase) \/ Contains(entry.body, phrase)

fetchNoteIdsBySearchPhrase(searchPhrase, f, sorters, limit, offset) ==
    LET joinTags == f.tags.def \/ OrdersByTag(sorters)
        rows == { r \in FromRows(joinTags) :
                    /\ RowMatches(r, f)
                    /\ r.note \in DOMAIN fts
                    /\ FtsMatch(fts[r.note], searchPhrase) }
        totalCount == Cardinality({ r.note : r \in rows })
        idsList == NoteIdsOf(Slice(SortRows(rows, sorters), offset, limit))
    IN [totalCount |-> totalCount, ids |-> idsList,
        hasMorePages |-> calcHasMorePages(totalCount, limit, offset)]

\* _qb.clone().where({ id: { $in: ids } }).getResult()
FetchByIds(idSet, sorters, wantTags) ==
    LET joinTags == wantTags \/ OrdersByTag(sorters)
        rows == { r \in FromRows(joinTags) : r.note \in idSet }
    IN Hydrate(SortRows(rows, sorters), wantTags)

Orderings(n) ==
    { p \in [1 .. n -> 1 .. n] : \A i, j \in 1 .. n : p[i] = p[j] => i = j }

\* notes.reduce(...) : the map of fetched notes by id
NoteMap(rowsFetched) ==
    [id \in Range(ItemIds(rowsFetched)) |->
        CHOOSE it \in Range(rowsFetched) : it.id = id]

\* the fetched notes in the order of the map's keys, ignoring the id list
SortByIdsMapOrder(idList, noteMap) ==
    LET keys == SortRows({ [note |-> k, tag |-> NoTag] : k \in DOMAIN noteMap },
                         <<>>)
    IN [i \in 1 .. Len(keys) |-> noteMap[keys[i].note]]

\* ids.map((id) => noteMap[id])
SortByIds(idList, noteMap) ==
    [i \in 1 .. Len(idList) |->
        IF idList[i] \in DOMAIN noteMap THEN noteMap[idList[i]] ELSE Undefined]

----------------------------------------------------------------------------
(* Inputs of searchNotes *)

DateRanges == { <<1, 2>>, <<2, 3>> }
SourceIdInputs == { Absent, Given({1}) }
LanguageIdInputs == { Absent, Given({2}) }
TagIdInputs == { Absent, Given({2}), Given({1, 2}) }
PhraseInputs == { AbsentStr, Given("iwi") }
SortInputs ==
    { AbsentSeq,
      Given(<<>>),
      Given(<< [field |-> "date", sort |-> "desc"],
               [field |-> "languageId", sort |-> "desc"] >>),
      Given(<< [field |-> "sourceId", sort |-> "asc"],
               [field |-> "date", sort |-> "asc"] >>) }

SearchRequests ==
    { [fromDate |-> d[1], toDate |-> d[2], sourceIds |-> s, languageIds |-> l,
       tagIds |-> t, searchPhrase |-> p, limit |-> lim, offset |-> off,
       sortInput |-> so, wantTags |-> w] :
        d \in DateRanges, s \in SourceIdInputs, l \in LanguageIdInputs,
        t \in TagIdInputs, p \in PhraseInputs, lim \in 1 .. MaxLimit,
        off \in 0 .. MaxOffset, so \in SortInputs, w \in BOOLEAN }

----------------------------------------------------------------------------
(* Operations *)

\* a handler starts when no answer is waiting to be sent and the database
\* connection is free: between requests, or while a searchNotes call awaits
\* one of its statements
Idle ==
    /\ pc # "done" /\ pc # "failed" /\ pc # "rejected"
    /\ ~ret.def
    /\ ~tx.open

\* the requests that can start a handler now: none while Idle does not hold
Arriving(requests) == IF Idle THEN requests ELSE {}

\* a mutation returns value / throws error
Returned(op, arg, value) ==
    [def |-> TRUE, op |-> op, arg |-> arg, ok |-> TRUE, value |-> value]

Thrown(op, arg, error) ==
    [def |-> TRUE, op |-> op, arg |-> arg, ok |-> FALSE, value |-> error]

\* the id argument of saveNote: absent, NaN or a number
AbsentId == [def |-> FALSE, nan |-> FALSE, val |-> 0]
NaNId == [def |-> TRUE, nan |-> TRUE, val |-> 0]
NumId(n) == [def |-> TRUE, nan |-> FALSE, val |-> n]

SaveIds == { AbsentId, NaNId } \cup { NumId(n) : n \in -1 .. MaxNotes }

\* the test on id with 0 taken as an id to update
IsUpdateFromZero(id) == id.def /\ ~id.nan /\ id.val >= 0

\* id !== undefined && !Number.isNaN(id) && id > 0
IsUpdate(id) == id.def /\ ~id.nan /\ id.val > 0

\* new NoteFlat(note)
NoteFlat(id, row) ==
    [id |-> id, internalId |-> row.internalId, title |-> row.title,
     body |-> row.body, sourceId |-> row.source, languageId |-> row.language,
     date |-> row.date]

\* deletes that leave the view_note rows alone
ViewNotesAllKept(rows, goneNotes, goneViews) == rows

\* missingIds that reports every id of the list
missingIdsAll(idList, found) == idList

\* rows of view_note that go with deleted notes or views (ON DELETE CASCADE)
ViewNotesKept(rows, goneNotes, goneViews) ==
    { vn \in rows : vn.note \notin goneNotes /\ vn.view \notin goneViews }

\* saveNote(data, id): update when id > 0, insert otherwise
SaveNote(input, id) ==
    /\ Idle
    /\ LET arg == [id |-> id, data |-> input]
       IN \/ /\ IsUpdate(id)
             /\ id.val \in DOMAIN notes
             /\ InternalIdFree(input.internalId, {id.val})
             /\ notes' = [notes EXCEPT ![id.val] = NoteRow(input)]
             /\ fts' = FtsInsert(FtsDelete(fts, id.val), id.val,
                                 input.title, input.body)
             /\ ret' = Returned("saveNote", arg,
                                NoteFlat(id.val, NoteRow(input)))
             /\ UNCHANGED nextId
          \/ /\ ~IsUpdate(id)
             /\ nextId <= MaxNotes
             /\ InternalIdFree(input.internalId, {})
             /\ notes' = [n \in (DOMAIN notes) \cup {nextId} |->
                             IF n = nextId THEN NoteRow(input) ELSE notes[n]]
             /\ nextId' = nextId + 1
             /\ fts' = FtsInsert(fts, nextId, input.title, input.body)
             /\ ret' = Returned("saveNote", arg,
                                NoteFlat(nextId, NoteRow(input)))
          \/ /\ IsUpdate(id)
             /\ id.val \notin DOMAIN notes
             /\ ret' = Thrown("saveNote", arg, "NotFoundError")
             /\ UNCHANGED <<notes, nextId, fts>>
          \/ /\ \/ /\ IsUpdate(id)
                   /\ id.val \in DOMAIN notes
                   /\ ~InternalIdFree(input.internalId, {id.val})
                \/ /\ ~IsUpdate(id)
                   /\ ~InternalIdFree(input.internalId, {})
             /\ ret' = Thrown("saveNote", arg, "UniqueConstraintViolation")
             /\ UNCHANGED <<notes, nextId, fts>>
    /\ UNCHANGED noteTags
    /\ UNCHANGED callVars
    /\ UNCHANGED <<pgVars, fnVars, viewVars, tx>>

\* deleteNote(id); note_tag and view_note rows go with ON DELETE CASCADE
DeleteNote(id) ==
    /\ Idle
    /\ \/ /\ id \in DOMAIN notes
          /\ notes' = [n \in (DOMAIN notes) \ {id} |-> notes[n]]
          /\ noteTags' = { nt \in noteTags : nt[1] # id }
          /\ viewNotes' = ViewNotesKept(viewNotes, {id}, {})
          /\ fts' = FtsDelete(fts, id)
          /\ ret' = Returned("deleteNote", id, TRUE)
       \/ /\ id \notin DOMAIN notes
          /\ ret' = Thrown("deleteNote", id, "Note not found")
          /\ UNCHANGED <<notes, noteTags, fts, viewNotes>>
    /\ UNCHANGED nextId
    /\ UNCHANGED callVars
    /\ UNCHANGED <<pgVars, fnVars, views, nextViewId, tx>>

\* new Date(0), the lower bound when the interval has no fromDate
Epoch == 0

AbsentDate == [def |-> FALSE, val |-> Epoch]

Intervals ==
    { [fromDate |-> f, toDate |-> t] : f \in { AbsentDate, Given(2) },
                                      t \in { 1, 2 } }

\* trigger note_after_deleted, fired once for each row of a DELETE statement
RECURSIVE DeleteTrigger(_, _)
DeleteTrigger(index, rows) ==
    IF rows = {} THEN index
    ELSE LET n == CHOOSE m \in rows : TRUE
         IN DeleteTrigger(FtsDelete(index, n), rows \ {n})

\* the where clause of deleteNotesInInterval with the upper bound left out
InIntervalFrom(interval, date) ==
    IF interval.fromDate.def
    THEN date >= interval.fromDate.val
    ELSE date >= Epoch

\* query.date = { $gte: fromDate or new Date(0), $lte: toDate }
InInterval(interval, date) ==
    IF interval.fromDate.def
    THEN date >= interval.fromDate.val /\ date <= interval.toDate
    ELSE date >= Epoch /\ date <= interval.toDate

\* deleteNotesInInterval(interval): one DELETE statement; the row triggers
\* and the cascades run for every deleted note; a failed statement is caught
\* and answered with false
DeleteNotesInInterval(interval) ==
    /\ Idle
    /\ \/ LET gone == { n \in DOMAIN notes :
                          InInterval(interval, notes[n].date) }
          IN /\ notes' = [n \in (DOMAIN notes) \ gone |-> notes[n]]
             /\ noteTags' = { nt \in noteTags : nt[1] \notin gone }
             /\ viewNotes' = ViewNotesKept(viewNotes, gone, {})
             /\ fts' = DeleteTrigger(fts, gone)
             /\ ret' = Returned("deleteNotesInInterval", interval, TRUE)
       \/ /\ ret' = Returned("deleteNotesInInterval", interval, FALSE)
          /\ UNCHANGED <<notes, noteTags, viewNotes, fts>>
    /\ UNCHANGED nextId
    /\ UNCHANGED callVars
    /\ UNCHANGED <<pgVars, fnVars, views, nextViewId, tx>>

\* ids.filter((id) => !foundIds.has(id))
missingIds(idList, found) ==
    SelectSeq(idList, LAMBDA id : id \notin found)

\* the unique (owner, member) index rejects a list naming a member twice
HasDuplicates(idList) ==
    \E i, j \in DOMAIN idList : i # j /\ idList[i] = idList[j]

\* associateTagsWithNote(associations), one transaction
AssociateTagsWithNote(noteId, tagIds) ==
    /\ Idle
    /\ LET arg == [owner |-> noteId, members |-> tagIds]
           missing == missingIds(tagIds, Tags)
       IN \/ /\ noteId \in DOMAIN notes
             /\ missing = <<>>
             /\ ~HasDuplicates(tagIds)
             /\ noteTags' = { nt \in noteTags : nt[1] # noteId }
                            \cup { <<noteId, tagIds[i]>> : i \in DOMAIN tagIds }
             /\ ret' = Returned("associateTagsWithNote", arg, TRUE)
          \/ /\ noteId \notin DOMAIN notes
             /\ ret' = Thrown("associateTagsWithNote", arg, << noteId >>)
             /\ UNCHANGED noteTags
          \/ /\ noteId \in DOMAIN notes
             /\ missing # <<>>
             /\ ret' = Thrown("associateTagsWithNote", arg, missing)
             /\ UNCHANGED noteTags
          \/ /\ noteId \in DOMAIN notes
             /\ missing = <<>>
             /\ HasDuplicates(tagIds)
             /\ ret' = Returned("associateTagsWithNote", arg, FALSE)
             /\ UNCHANGED noteTags
    /\ UNCHANGED <<notes, nextId, fts>>
    /\ UNCHANGED callVars
    /\ UNCHANGED <<pgVars, fnVars, viewVars, tx>>

\* the answer of a mutation reaches its caller
Reply ==
    /\ ret.def
    /\ tx.pc = "none"
    /\ ret' = NoReturn
    /\ UNCHANGED dbVars
    /\ UNCHANGED callVars
    /\ UNCHANGED <<pgVars, fnVars, viewVars, tx>>

\* searchNotes(searchInput, pagination, sortInput)
SearchNotes(r) ==
    LET f == Filters(r)
        sorters == Sorters(r.sortInput, r.wantTags)
    IN /\ Idle
       /\ req' = [def |-> TRUE, in |-> r]
       /\ pc' = "done"
       /\ \/ /\ r.searchPhrase.def
             /\ \E path \in AccessPaths :
                LET results == fetchNoteIdsBySearchPhrase(
                                   r.searchPhrase.val, f,
                                   OrderBy(sorters, path),
                                   r.limit, r.offset)
                    rowsInDb == FetchByIds(Range(results.ids), sorters,
                                           r.wantTags)
                IN \E p \in Orderings(Len(rowsInDb)) :
                      LET rowsFetched == [i \in 1 .. Len(rowsInDb) |->
                                             rowsInDb[p[i]]]
                      IN /\ ids' = results.ids
                         /\ fetched' = ItemIds(rowsFetched)
                         /\ log' = <<"count", "ids", "rows">>
                         /\ result' =
                              [def |-> TRUE, branch |-> "B",
                               items |-> SortByIds(results.ids,
                                                   NoteMap(rowsFetched)),
                               totalCount |-> results.totalCount,
                               hasNextPage |-> results.hasMorePages]
                         /\ total' = result'.totalCount
          \/ /\ ~r.searchPhrase.def
             /\ \E path \in AccessPaths :
                LET results == getResultAndCount(f, OrderBy(sorters, path),
                                                 r.wantTags,
                                                 r.limit, r.offset)
                IN /\ ids' = <<>>
                   /\ fetched' = <<>>
                   /\ log' = <<"list", "listCount">>
                   /\ result' =
                        [def |-> TRUE, branch |-> "A",
                         items |-> results.items,
                         totalCount |-> results.totalCount,
                         hasNextPage |-> calcHasMorePages(
                             results.totalCount, r.limit, r.offset)]
                   /\ total' = result'.totalCount
       /\ UNCHANGED dbVars
       /\ UNCHANGED utilVars

\* the envelope is sent and the request context (forked em) is dropped
Respond ==
    /\ pc \in { "done", "failed", "rejected" }
    /\ req' = NoCall
    /\ ids' = <<>>
    /\ fetched' = <<>>
    /\ result' = NoCall
    /\ pc' = "idle"
    /\ log' = <<>>
    /\ total' = 0
    /\ UNCHANGED dbVars
    /\ UNCHANGED utilVars

----------------------------------------------------------------------------
(* Specification of the service *)

Init ==
    /\ notes = << >>
    /\ nextId = 1
    /\ noteTags = {}
    /\ fts = << >>
    /\ req = NoCall
    /\ ids = <<>>
    /\ fetched = <<>>
    /\ result = NoCall
    /\ pc = "idle"
    /\ log = <<>>
    /\ total = 0
    /\ pgTotal = 0
    /\ pgLimit = 1
    /\ pgOffset = 0
    /\ pgHas = FALSE
    /\ matchPhrase = <<>>
    /\ matchSql = <<>>
    /\ mappedFields = NoFields
    /\ populatedValues = NoKeys
    /\ fieldValues = NoValues
    /\ views = {}
    /\ nextViewId = 1
    /\ viewNotes = {}
    /\ ret = NoReturn
    /\ tx = NoTx

Next ==
    \/ \E input \in NoteInputs, id \in SaveIds : SaveNote(input, id)
    \/ \E id \in 1 .. MaxNotes : DeleteNote(id)
    \/ \E interval \in Intervals : DeleteNotesInInterval(interval)
    \/ \E noteId \in 1 .. MaxNotes, tagIds \in TagLists :
          AssociateTagsWithNote(noteId, tagIds)
    \/ \E r \in Arriving(SearchRequests) : SearchNotes(r)
    \/ Respond
    \/ Reply

Spec == Init /\ [][Next]_vars

----------------------------------------------------------------------------
(* Specification of a caller paging through a listing: calcHasMorePages is *)
(* applied to every offset the caller asks for                             *)

InitPage ==
    /\ notes = << >>
    /\ nextId = 1
    /\ noteTags = {}
    /\ fts = << >>
    /\ req = NoCall
    /\ ids = <<>>
    /\ fetched = <<>>
    /\ result = NoCall
    /\ pc = "idle"
    /\ log = <<>>
    /\ total = 0
    /\ pgTotal \in 0 .. MaxTotal
    /\ pgLimit \in 1 .. MaxPageSize
    /\ pgOffset \in 0 .. WalkEnd
    /\ pgHas = calcHasMorePages(pgTotal, pgLimit, pgOffset)
    /\ matchPhrase = <<>>
    /\ matchSql = <<>>
    /\ mappedFields = NoFields
    /\ populatedValues = NoKeys
    /\ fieldValues = NoValues
    /\ views = {}
    /\ nextViewId = 1
    /\ viewNotes = {}
    /\ ret = NoReturn
    /\ tx = NoTx

\* the caller asks for the next page: offset + limit
NextPage ==
    /\ pgOffset + pgLimit <= WalkEnd
    /\ pgOffset' = pgOffset + pgLimit
    /\ pgHas' = calcHasMorePages(pgTotal, pgLimit, pgOffset')
    /\ UNCHANGED <<pgTotal, pgLimit>>
    /\ UNCHANGED fnVars
    /\ UNCHANGED dbVars
    /\ UNCHANGED callVars
    /\ UNCHANGED writeVars

\* the caller jumps to any larger offset
SeekPage(offset) ==
    /\ offset > pgOffset
    /\ pgOffset' = offset
    /\ pgHas' = calcHasMorePages(pgTotal, pgLimit, pgOffset')
    /\ UNCHANGED <<pgTotal, pgLimit>>
    /\ UNCHANGED fnVars
    /\ UNCHANGED dbVars
    /\ UNCHANGED callVars
    /\ UNCHANGED writeVars

NextPaging ==
    \/ NextPage
    \/ \E offset \in 0 .. WalkEnd : SeekPage(offset)

SpecPage == InitPage /\ [][NextPaging]_vars

SpecPageFair == SpecPage /\ WF_vars(NextPage)

----------------------------------------------------------------------------
(* Claims on the pagination policy *)

CeilDiv(a, b) == (a + b - 1) \div b

\* C5: walking a listing by steps of limit eventually makes
\* calcHasMorePages false, and once false it is false at every larger offset.
C5_EventuallyNoMorePages ==
    /\ [][~pgHas => ~pgHas']_vars
    /\ <>[](~pgHas)

C5_Witness ==
    /\ pgTotal > pgLimit
    /\ pgOffset >= pgTotal
    /\ ~pgHas

\* C6: calcHasMorePages(totalCount, limit, offset) is
\* floor(offset / limit) + 1 < ceil(totalCount / limit).
C6_PageFormula ==
    pgHas = (((pgOffset \div pgLimit) + 1) < CeilDiv(pgTotal, pgLimit))

C6_Witness ==
    /\ pgTotal % pgLimit # 0
    /\ (pgOffset \div pgLimit) + 1 = pgTotal \div pgLimit
    /\ pgHas

\* C7: calcHasMorePages is false when totalCount = 0 and when
\* offset >= totalCount.
C7_FalseAtEnd ==
    (pgTotal = 0 \/ pgOffset >= pgTotal) => ~pgHas

C7_Witness ==
    /\ pgTotal > 0
    /\ pgTotal % pgLimit # 0
    /\ pgOffset = pgTotal
    /\ ~pgHas

----------------------------------------------------------------------------
(* Claims about searchNotes *)

\* C1: in Branch B the ids of the returned items, read in order, are exactly
\* the id list of the text-match resolver, whatever order the by-id fetch
\* returned its rows in.
C1_ItemsFollowIds ==
    (result.def /\ result.branch = "B" /\ ids # <<>>)
        => ItemIds(result.items) = ids

C1_Witness ==
    /\ result.def
    /\ result.branch = "B"
    /\ Len(ids) = 2
    /\ ids[1] # ids[2]
    /\ fetched # ids
    /\ ItemIds(result.items) = ids

\* the stated meaning of a search request for one note
DeclMatches(n, r) ==
    /\ r.fromDate <= notes[n].date
    /\ notes[n].date <= r.toDate
    /\ (~r.sourceIds.def \/ notes[n].source \in r.sourceIds.val)
    /\ (~r.languageIds.def \/ notes[n].language \in r.languageIds.val)
    /\ (~r.tagIds.def \/ \E t \in r.tagIds.val : <<n, t>> \in noteTags)

DeclMatching(r) == { n \in DOMAIN notes : DeclMatches(n, r) }

\* the notes selected by the filter object that searchNotes composed
FilterSelects(r) ==
    LET f == Filters(r)
    IN { row.note : row \in { x \in FromRows(f.tags.def) : RowMatches(x, f) } }

\* C2: a note satisfies the composed filter iff its date is within
\* [fromDate, toDate] inclusive, and its source is in sourceIds when given,
\* and its language is in languageIds when given, and at least one of its
\* tags is in tagIds when given; every item searchNotes returns is such a note.
C2_FilterMeaning ==
    req.def =>
        /\ FilterSelects(req.in) = DeclMatching(req.in)
        /\ Range(ItemIds(result.items)) \subseteq DeclMatching(req.in)

C2_Witness ==
    /\ req.def
    /\ req.in.tagIds = Given({1, 2})
    /\ req.in.sourceIds.def
    /\ ~req.in.searchPhrase.def
    /\ \E n \in DOMAIN notes :
          /\ <<n, 1>> \in noteTags
          /\ <<n, 2>> \notin noteTags
          /\ notes[n].date = req.in.toDate
          /\ n \in Range(ItemIds(result.items))
    /\ \E m \in DOMAIN notes : m \notin FilterSelects(req.in)

\* the id-page query of Branch B for request r at another offset
IdPage(r, offset) ==
    fetchNoteIdsBySearchPhrase(r.searchPhrase.val, Filters(r),
                               Sorters(r.sortInput, r.wantTags),
                               r.limit, offset).ids

\* the id pages at offsets offset, offset + limit, ... up to the first empty one
RECURSIVE IdPages(_, _)
IdPages(r, offset) ==
    LET page == IdPage(r, offset)
    IN IF page = <<>> THEN <<>> ELSE page \o IdPages(r, offset + r.limit)

\* C3: in Branch B the totalCount of the count-only query equals the number
\* of ids obtained by running the id-page query at offsets 0, limit,
\* 2*limit, ... until a page is empty, also when notes carry several tags.
C3_CountIsIdTotal ==
    (result.def /\ result.branch = "B")
        => result.totalCount = Len(IdPages(req.in, 0))

\* the item ids searchNotes returns for request r at another offset
ItemsAt(r, offset) ==
    IF r.searchPhrase.def
    THEN ItemIds(SortByIds(IdPage(r, offset),
             NoteMap(FetchByIds(Range(IdPage(r, offset)),
                                Sorters(r.sortInput, r.wantTags),
                                r.wantTags))))
    ELSE ItemIds(getResultAndCount(Filters(r),
                                   Sorters(r.sortInput, r.wantTags),
                                   r.wantTags, r.limit, offset).items)

RECURSIVE AllPages(_, _)
AllPages(r, offset) ==
    LET page == ItemsAt(r, offset)
    IN IF page = <<>> THEN <<>> ELSE page \o AllPages(r, offset + r.limit)

\* the notes a request is about: the stated filter and, with a phrase, the
\* phrase occurring in the title or the body
Matching(r) ==
    { n \in DeclMatching(r) :
        r.searchPhrase.def =>
            \/ Contains(notes[n].title, r.searchPhrase.val)
            \/ Contains(notes[n].body, r.searchPhrase.val) }

\* C4: for a fixed data set and request, in either branch, the items of the
\* pages at offsets 0, limit, 2*limit, ... concatenated contain every
\* matching note exactly once, also for notes with several tags.
C4_PagesPartition ==
    req.def =>
        LET all == AllPages(req.in, 0)
        IN /\ Range(all) = Matching(req.in)
           /\ Len(all) = Cardinality(Matching(req.in))

\* C8: when no note matches, because of the relational filter, the text
\* match or both, searchNotes answers in both branches with items = [],
\* totalCount = 0 and hasNextPage = false; the call always has an answer.
C8_EmptyEnvelope ==
    /\ (req.def /\ Matching(req.in) = {}) =>
          /\ result.def
          /\ result.items = <<>>
          /\ result.totalCount = 0
          /\ ~result.hasNextPage
    /\ req.def => result.def

C8_Witness ==
    /\ result.def
    /\ result.branch = "B"
    /\ DeclMatching(req.in) # {}
    /\ Matching(req.in) = {}
    /\ result.items = <<>>
    /\ result.totalCount = 0
    /\ ~result.hasNextPage

\* the whole listing of Branch A for request r: offset 0 and a limit that no
\* listing exceeds
FullListing(r, path) ==
    ItemIds(getResultAndCount(Filters(r),
                              OrderBy(Sorters(r.sortInput, r.wantTags), path),
                              r.wantTags, MaxNotes, 0).items)

TagsOf(n) == { t \in Tags : <<n, t>> \in noteTags }

\* C9: in Branch A totalCount is the number of distinct matching notes
\* whatever limit and offset are; the listing holds each matching note once
\* and the items are its notes at positions offset .. offset+limit-1, so
\* limit and offset count notes and not joined tag rows; a note is returned
\* with all of its tags.
C9_PagesCountNotes ==
    (result.def /\ result.branch = "A") =>
        LET r == req.in
        IN /\ result.totalCount = Cardinality(DeclMatching(r))
           /\ \A path \in AccessPaths :
                 /\ Range(FullListing(r, path)) = DeclMatching(r)
                 /\ Len(FullListing(r, path)) = Cardinality(DeclMatching(r))
           /\ \E path \in AccessPaths :
                 ItemIds(result.items)
                    = Slice(FullListing(r, path), r.offset, r.limit)
           /\ r.wantTags =>
                 \A i \in DOMAIN result.items :
                    /\ Range(result.items[i].tags) = TagsOf(result.items[i].id)
                    /\ Len(result.items[i].tags)
                          = Cardinality(TagsOf(result.items[i].id))

C9_Witness ==
    /\ result.def
    /\ result.branch = "A"
    /\ req.in.wantTags
    /\ req.in.tagIds.def
    /\ req.in.limit = 1
    /\ req.in.offset = 1
    /\ result.totalCount = 2
    /\ Len(result.items) = 1
    /\ Len(result.items[1].tags) = 2
    /\ \E n \in DOMAIN notes :
          /\ n # result.items[1].id
          /\ Cardinality(TagsOf(n)) = 2

\* the value a (field, direction) pair of the sort specification compares
SortKey(n, field) ==
    CASE field = "date" -> notes[n].date
      [] field = "languageId" -> notes[n].language
      [] field = "sourceId" -> notes[n].source

\* note a comes strictly before note b in the lexicographic order of sorts
StrictlyBefore(a, b, sorts) ==
    \E k \in DOMAIN sorts :
       /\ \A m \in 1 .. (k - 1) :
             SortKey(a, sorts[m].field) = SortKey(b, sorts[m].field)
       /\ IF sorts[k].sort = "asc"
          THEN SortKey(a, sorts[k].field) < SortKey(b, sorts[k].field)
          ELSE SortKey(a, sorts[k].field) > SortKey(b, sorts[k].field)

\* C10: with a sort specification the items are ordered lexicographically by
\* its (field, direction) pairs in the listed order: a later pair decides
\* only between notes equal on all earlier pairs; date compares the note's
\* date, languageId and sourceId the related entity's id.
C10_LexicographicOrder ==
    (result.def /\ req.in.sortInput.def) =>
        \A i, j \in DOMAIN result.items :
            i < j => ~StrictlyBefore(result.items[j].id, result.items[i].id,
                                     req.in.sortInput.val)

C10_Witness ==
    /\ result.def
    /\ req.in.sortInput.def
    /\ Len(req.in.sortInput.val) = 2
    /\ Len(result.items) = 2
    /\ LET a == result.items[1].id
           b == result.items[2].id
           sorts == req.in.sortInput.val
       IN /\ a # b
          /\ StrictlyBefore(a, b, sorts)
          /\ SortKey(a, sorts[1].field) # SortKey(b, sorts[1].field)
          /\ StrictlyBefore(b, a, <<sorts[2]>>)

\* the items are in date-ascending order
DateAscending(items) ==
    \A i, j \in DOMAIN items :
        i < j => notes[items[i].id].date <= notes[items[j].id].date

\* the tags of every item are in display-order ascending order
TagsByDisplayOrder(items) ==
    \A k \in DOMAIN items :
        \A i, j \in DOMAIN items[k].tags :
            i < j => tagDisplayOrder[items[k].tags[i]]
                        <= tagDisplayOrder[items[k].tags[j]]

\* C11: when the sort specification is absent or its list of sorts is
\* empty, the items are in the default order, date ascending, and with tags
\* requested each item's tag list is in display-order ascending order.
C11_DefaultOrder ==
    (result.def /\ (~req.in.sortInput.def \/ req.in.sortInput.val = <<>>)) =>
        /\ DateAscending(result.items)
        /\ req.in.wantTags => TagsByDisplayOrder(result.items)

\* the part of C11 about an absent sort specification
C11_AbsentSortIsDefault ==
    (result.def /\ ~req.in.sortInput.def) =>
        /\ DateAscending(result.items)
        /\ req.in.wantTags => TagsByDisplayOrder(result.items)

\* the notes that satisfy the stated filter and whose text-index entry holds
\* the phrase in the title or in the body
IndexMatching(r) ==
    { n \in DeclMatching(r) :
        /\ n \in DOMAIN fts
        /\ \/ Contains(fts[n].title, r.searchPhrase.val)
           \/ Contains(fts[n].body, r.searchPhrase.val) }

\* C13: with a search phrase, the notes searchNotes counts and pages over
\* are exactly the notes that satisfy the relational filter and whose
\* text-index entry matches the phrase in the title or in the body.
C13_PhraseTitleOrBody ==
    (result.def /\ result.branch = "B") =>
        /\ result.totalCount = Cardinality(IndexMatching(req.in))
        /\ Range(IdPage([req.in EXCEPT !.limit = MaxNotes * Cardinality(Tags)],
                        0)) = IndexMatching(req.in)
        /\ Range(ids) \subseteq IndexMatching(req.in)

C13_Witness ==
    /\ result.def
    /\ result.branch = "B"
    /\ result.totalCount = 1
    /\ Len(ids) = 1
    /\ ~Contains(fts[ids[1]].title, req.in.searchPhrase.val)
    /\ Contains(fts[ids[1]].body, req.in.searchPhrase.val)
    /\ DeclMatching(req.in) # IndexMatching(req.in)

----------------------------------------------------------------------------
(* Argument validation (class-validator, run by the schema with validate:  *)
(* true before the resolver is called)                                     *)

MaxIdListSize == 10
MinPhraseLength == 3
MinLimit == 1
MaxLimitAllowed == 50
MinOffset == 0

\* an isBefore that accepts equal dates
IsBeforeOrEqual(propertyValue, constraintDate) ==
    propertyValue <= constraintDate

\* IsBeforeConstraint.validate
IsBefore(propertyValue, constraintDate) ==
    propertyValue < constraintDate

\* the decorators of SearchNotesInput and PaginationInput
Validate(r) ==
    /\ IsBefore(r.fromDate, r.toDate)
    /\ r.sourceIds.def => Cardinality(r.sourceIds.val) <= MaxIdListSize
    /\ r.languageIds.def => Cardinality(r.languageIds.val) <= MaxIdListSize
    /\ r.tagIds.def => Cardinality(r.tagIds.val) <= MaxIdListSize
    /\ r.searchPhrase.def => Len(Chars(r.searchPhrase.val)) >= MinPhraseLength
    /\ r.limit >= MinLimit
    /\ r.limit <= MaxLimitAllowed
    /\ r.offset >= MinOffset

----------------------------------------------------------------------------
(* Specification of one searchNotes call taken statement by statement,     *)
(* with other requests writing to the store between its statements and     *)
(* with statements that may fail                                           *)

\* requests that pass validation
ValidCalls ==
    { r \in SearchRequests :
        /\ r.fromDate = 1
        /\ r.offset = 0
        /\ ~r.sourceIds.def /\ ~r.languageIds.def /\ ~r.tagIds.def
        /\ ~r.sortInput.def }

BaseCall ==
    [fromDate |-> 1, toDate |-> 2, sourceIds |-> Absent,
     languageIds |-> Absent, tagIds |-> Absent, searchPhrase |-> AbsentStr,
     limit |-> 1, offset |-> 0, sortInput |-> AbsentSeq, wantTags |-> FALSE]

\* requests that break one constraint each
InvalidCalls ==
    { [BaseCall EXCEPT !.fromDate = 2],
      [BaseCall EXCEPT !.fromDate = 3],
      [BaseCall EXCEPT !.sourceIds = Given(1 .. (MaxIdListSize + 1))],
      [BaseCall EXCEPT !.languageIds = Given(1 .. (MaxIdListSize + 1))],
      [BaseCall EXCEPT !.tagIds = Given(1 .. (MaxIdListSize + 1))],
      [BaseCall EXCEPT !.searchPhrase = Given("wi")],
      [BaseCall EXCEPT !.limit = MinLimit - 1],
      [BaseCall EXCEPT !.limit = MaxLimitAllowed + 1],
      [BaseCall EXCEPT !.offset = MinOffset - 1] }

CallRequests == ValidCalls \cup InvalidCalls

Statements == { "count", "ids", "rows", "list", "listCount" }

\* the request arrives: its arguments are validated, then searchNotes runs
Receive(r) ==
    /\ pc = "idle"
    /\ ~ret.def
    /\ req' = [def |-> TRUE, in |-> r]
    /\ pc' = IF ~Validate(r) THEN "rejected"
             ELSE IF r.searchPhrase.def THEN "count" ELSE "list"
    /\ UNCHANGED <<ids, fetched, result, log, total>>
    /\ UNCHANGED dbVars
    /\ UNCHANGED utilVars

\* Branch B: execute(knexCountQuery)
CountStmt ==
    /\ pc = "count"
    /\ ~ret.def
    /\ total' = fetchNoteIdsBySearchPhrase(
                    req.in.searchPhrase.val, Filters(req.in),
                    Sorters(req.in.sortInput, req.in.wantTags),
                    req.in.limit, req.in.offset).totalCount
    /\ log' = Append(log, "count")
    /\ pc' = "ids"
    /\ UNCHANGED <<req, ids, fetched, result>>
    /\ UNCHANGED dbVars
    /\ UNCHANGED utilVars

\* Branch B: execute(knexSelectQuery)
IdsStmt ==
    /\ pc = "ids"
    /\ ~ret.def
    /\ \E path \in AccessPaths :
          ids' = fetchNoteIdsBySearchPhrase(
                     req.in.searchPhrase.val, Filters(req.in),
                     OrderBy(Sorters(req.in.sortInput, req.in.wantTags), path),
                     req.in.limit, req.in.offset).ids
    /\ log' = Append(log, "ids")
    /\ pc' = "rows"
    /\ UNCHANGED <<req, fetched, result, total>>
    /\ UNCHANGED dbVars
    /\ UNCHANGED utilVars

\* Branch B: the by-id fetch, the reorder and the envelope
RowsStmt ==
    /\ pc = "rows"
    /\ ~ret.def
    /\ LET rowsInDb == FetchByIds(Range(ids),
                                  Sorters(req.in.sortInput, req.in.wantTags),
                                  req.in.wantTags)
       IN \E p \in Orderings(Len(rowsInDb)) :
             LET rowsFetched == [i \in 1 .. Len(rowsInDb) |-> rowsInDb[p[i]]]
             IN /\ fetched' = ItemIds(rowsFetched)
                /\ result' =
                     [def |-> TRUE, branch |-> "B",
                      items |-> SortByIds(ids, NoteMap(rowsFetched)),
                      totalCount |-> total,
                      hasNextPage |-> calcHasMorePages(
                          total, req.in.limit, req.in.offset)]
    /\ log' = Append(log, "rows")
    /\ pc' = "done"
    /\ UNCHANGED <<req, ids, total>>
    /\ UNCHANGED dbVars
    /\ UNCHANGED utilVars

\* Branch A: the result list of getResultAndCount
ListStmt ==
    /\ pc = "list"
    /\ ~ret.def
    /\ \E path \in AccessPaths :
          result' =
            [def |-> FALSE,
             items |-> getResultAndCount(
                 Filters(req.in),
                 OrderBy(Sorters(req.in.sortInput, req.in.wantTags), path),
                 req.in.wantTags, req.in.limit, req.in.offset).items]
    /\ log' = Append(log, "list")
    /\ pc' = "listCount"
    /\ UNCHANGED <<req, ids, fetched, total>>
    /\ UNCHANGED dbVars
    /\ UNCHANGED utilVars

\* Branch A: the count of getResultAndCount and the envelope
ListCountStmt ==
    /\ pc = "listCount"
    /\ ~ret.def
    /\ LET totalCount == getResultAndCount(
                             Filters(req.in),
                             Sorters(req.in.sortInput, req.in.wantTags),
                             req.in.wantTags, req.in.limit,
                             req.in.offset).totalCount
       IN /\ total' = totalCount
          /\ result' = [def |-> TRUE, branch |-> "A",
                        items |-> result.items,
                        totalCount |-> totalCount,
                        hasNextPage |-> calcHasMorePages(
                            totalCount, req.in.limit, req.in.offset)]
    /\ log' = Append(log, "listCount")
    /\ pc' = "done"
    /\ UNCHANGED <<req, ids, fetched>>
    /\ UNCHANGED dbVars
    /\ UNCHANGED utilVars

\* a failing statement that is issued a second time
StmtFailsRetrying ==
    /\ pc \in Statements
    /\ ~ret.def
    /\ log' = Append(Append(log, pc), pc)
    /\ pc' = "failed"
    /\ result' = NoCall
    /\ UNCHANGED <<req, ids, fetched, total>>
    /\ UNCHANGED dbVars
    /\ UNCHANGED utilVars

\* a failing statement that leaves the text index emptied
StmtFailsLosingIndex ==
    /\ pc \in Statements
    /\ ~ret.def
    /\ log' = Append(log, pc)
    /\ pc' = "failed"
    /\ result' = NoCall
    /\ fts' = << >>
    /\ UNCHANGED <<req, ids, fetched, total>>
    /\ UNCHANGED <<notes, nextId, noteTags>>
    /\ UNCHANGED utilVars

\* the statement the call is at is issued and rejected by the storage layer;
\* the rejection is thrown out of searchNotes
StmtFails ==
    /\ pc \in Statements
    /\ ~ret.def
    /\ log' = Append(log, pc)
    /\ pc' = "failed"
    /\ result' = NoCall
    /\ UNCHANGED <<req, ids, fetched, total>>
    /\ UNCHANGED dbVars
    /\ UNCHANGED utilVars

NextStmt ==
    \/ \E input \in NoteInputs, id \in SaveIds : SaveNote(input, id)
    \/ \E id \in 1 .. MaxNotes : DeleteNote(id)
    \/ \E interval \in Intervals : DeleteNotesInInterval(interval)
    \/ \E noteId \in 1 .. MaxNotes, tagIds \in TagLists :
          AssociateTagsWithNote(noteId, tagIds)
    \/ \E r \in CallRequests : Receive(r)
    \/ CountStmt
    \/ IdsStmt
    \/ RowsStmt
    \/ ListStmt
    \/ ListCountStmt
    \/ StmtFails
    \/ Respond
    \/ Reply

SpecStmt == Init /\ [][NextStmt]_vars

----------------------------------------------------------------------------
(* Claims about validation, snapshots, side effects and failures *)

\* the constraint violations a request can show
Violates(r) ==
    \/ r.fromDate >= r.toDate
    \/ r.sourceIds.def /\ Cardinality(r.sourceIds.val) > 10
    \/ r.languageIds.def /\ Cardinality(r.languageIds.val) > 10
    \/ r.tagIds.def /\ Cardinality(r.tagIds.val) > 10
    \/ r.searchPhrase.def /\ Len(Chars(r.searchPhrase.val)) < 3
    \/ r.limit < 1
    \/ r.limit > 50
    \/ r.offset < 0

\* C12: a request that violates an input constraint (fromDate not strictly
\* before toDate, an id list of more than 10 entries, a phrase shorter than
\* 3 characters, limit outside [1,50], offset < 0) is rejected with a
\* validation error, and no storage statement is issued for it.
C12_InvalidRejected ==
    (req.def /\ Violates(req.in)) =>
        /\ pc = "rejected"
        /\ log = <<>>
        /\ ~result.def

C12_Witness ==
    /\ req.def
    /\ req.in.fromDate = req.in.toDate
    /\ DOMAIN notes # {}
    /\ pc = "rejected"
    /\ log = <<>>

\* C14: within one Branch B call the count query, the id-page query and the
\* row fetch read one snapshot, also with writers between the statements:
\* every id of the page has a fetched row, items holds no missing element,
\* and the page holds no more notes than totalCount counts.
C14_OneSnapshot ==
    (pc = "done" /\ result.def /\ result.branch = "B") =>
        /\ Range(ids) \subseteq Range(fetched)
        /\ \A i \in DOMAIN result.items : result.items[i] # Undefined
        /\ Cardinality(Range(ids)) <= result.totalCount

\* C15: a searchNotes call is read-only: every step of the call, whether a
\* statement that completes or one that fails, leaves the stored notes, the
\* tag associations and the text-index entries as they were.
C15_ReadOnly ==
    [][(pc' # pc \/ log' # log \/ result' # result) => UNCHANGED dbVars]_vars

C15_Witness ==
    /\ pc = "failed"
    /\ log = <<"count", "ids", "rows">>
    /\ ids # <<>>
    /\ DOMAIN fts # {}

IsPrefix(s, t) == Len(s) <= Len(t) /\ s = SubSeq(t, 1, Len(s))

\* C16: when a storage statement of a searchNotes call fails, the failure
\* goes to the caller: no envelope is returned, the failed statement is
\* issued once, and no later statement of the call is issued; the only step
\* left to the call is the reply.
C16_FailurePropagates ==
    /\ [](\/ IsPrefix(log, <<"count", "ids", "rows">>)
          \/ IsPrefix(log, <<"list", "listCount">>))
    /\ [](pc = "failed" => (~result.def /\ log # <<>>))
    /\ [][pc = "failed" => (pc' = "idle" /\ log' = <<>> /\ ~result'.def)]_vars

C16_Witness ==
    /\ pc = "failed"
    /\ log = <<"count", "ids">>
    /\ ~result.def
    /\ DOMAIN notes # {}

----------------------------------------------------------------------------
(* The match query of fetchNoteIdsBySearchPhrase as text: the template     *)
(* literal handed to knex.raw, and how SQLite and FTS5 read it. A text is  *)
(* a sequence of pieces: the words of the template and the characters of   *)
(* the phrase.                                                             *)

DQ == "\""
SQ == "'"

PhraseAlphabet == { "a", DQ, SQ }

Phrases ==
    UNION { [1 .. n -> PhraseAlphabet] : n \in MinPhraseLength .. MaxPhraseLen }

\* `note_fts5_index MATCH 'title:"${searchPhrase}" * OR body:"${searchPhrase}" * '`
RawMatch(searchPhrase) ==
    << "note_fts5_index", "MATCH", SQ, "title:", DQ >> \o searchPhrase
        \o << DQ, "*", "OR", "body:", DQ >> \o searchPhrase
        \o << DQ, "*", SQ >>

\* index of the quote that closes a string opened before position i (a
\* doubled quote stands for one quote inside the string); 0 when none does
RECURSIVE StringClose(_, _, _)
StringClose(text, i, quote) ==
    IF i > Len(text) THEN 0
    ELSE IF text[i] = quote
         THEN IF i < Len(text) /\ text[i + 1] = quote
              THEN StringClose(text, i + 2, quote)
              ELSE i
         ELSE StringClose(text, i + 1, quote)

\* the value of a string body: doubled quotes become one quote
RECURSIVE Unquote(_, _)
Unquote(body, quote) ==
    IF body = <<>> THEN <<>>
    ELSE IF Head(body) = quote /\ Len(body) > 1 /\ body[2] = quote
         THEN <<quote>> \o Unquote(SubSeq(body, 3, Len(body)), quote)
         ELSE <<Head(body)>> \o Unquote(Tail(body), quote)

\* SQLite reading the where clause: the literal after MATCH and what follows it
SqlRead(text) ==
    LET close == StringClose(text, 4, SQ)
    IN [terminated |-> close # 0,
        literal |-> IF close = 0 THEN <<>>
                    ELSE Unquote(SubSeq(text, 4, close - 1), SQ),
        trailing |-> IF close = 0 THEN <<>>
                     ELSE SubSeq(text, close + 1, Len(text))]

\* FTS5 reading the match expression: strings and bare pieces
RECURSIVE FtsRead(_)
FtsRead(query) ==
    IF query = <<>> THEN <<>>
    ELSE IF Head(query) = DQ
         THEN LET close == StringClose(query, 2, DQ)
              IN IF close = 0
                 THEN << [kind |-> "unterminated", val |-> Tail(query)] >>
                 ELSE << [kind |-> "string",
                          val |-> Unquote(SubSeq(query, 2, close - 1), DQ)] >>
                      \o FtsRead(SubSeq(query, close + 1, Len(query)))
         ELSE << [kind |-> "bare", val |-> <<Head(query)>>] >>
              \o FtsRead(Tail(query))

\* a request brings a phrase that passed validation
InitMatch ==
    /\ notes = << >>
    /\ nextId = 1
    /\ noteTags = {}
    /\ fts = << >>
    /\ req = NoCall
    /\ ids = <<>>
    /\ fetched = <<>>
    /\ result = NoCall
    /\ pc = "idle"
    /\ log = <<>>
    /\ total = 0
    /\ pgTotal = 0
    /\ pgLimit = 1
    /\ pgOffset = 0
    /\ pgHas = FALSE
    /\ matchPhrase \in Phrases
    /\ matchSql = <<>>
    /\ mappedFields = NoFields
    /\ populatedValues = NoKeys
    /\ fieldValues = NoValues
    /\ views = {}
    /\ nextViewId = 1
    /\ viewNotes = {}
    /\ ret = NoReturn
    /\ tx = NoTx

\* fetchNoteIdsBySearchPhrase builds the raw where clause
BuildMatch ==
    /\ matchSql = <<>>
    /\ matchSql' = RawMatch(matchPhrase)
    /\ UNCHANGED <<matchPhrase, mappedFields, populatedValues, fieldValues>>
    /\ UNCHANGED dbVars
    /\ UNCHANGED callVars
    /\ UNCHANGED pgVars
    /\ UNCHANGED writeVars

SpecMatch == InitMatch /\ [][BuildMatch]_vars

\* the match expression title:"<phrase>" * OR body:"<phrase>" *
FixedShape(searchPhrase) ==
    << [kind |-> "bare", val |-> <<"title:">>],
       [kind |-> "string", val |-> searchPhrase],
       [kind |-> "bare", val |-> <<"*">>],
       [kind |-> "bare", val |-> <<"OR">>],
       [kind |-> "bare", val |-> <<"body:">>],
       [kind |-> "string", val |-> searchPhrase],
       [kind |-> "bare", val |-> <<"*">>] >>

\* C17: the phrase is safely quoted in the match-query literal: for every
\* phrase of at least 3 characters, also with double or single quotes in it,
\* the statement's literal ends where the template ends it, nothing follows
\* it, and the match expression read from it is
\* title:"<phrase>" * OR body:"<phrase>" *.
C17_PhraseQuoted ==
    matchSql # <<>> =>
        /\ SqlRead(matchSql).terminated
        /\ SqlRead(matchSql).trailing = <<>>
        /\ FtsRead(SqlRead(matchSql).literal) = FixedShape(matchPhrase)

----------------------------------------------------------------------------
(* Claims about the full-text index *)

\* C18: after every saveNote, deleteNote and deleteNotesInInterval the
\* full-text index holds exactly one entry for each existing note, with the
\* note's current title and body, and no entry for a note that is gone
C18_IndexFollowsNotes ==
    /\ DOMAIN fts = DOMAIN notes
    /\ \A n \in DOMAIN notes :
          fts[n] = [title |-> notes[n].title, body |-> notes[n].body]

\* a note was deleted and a later one is still stored and indexed
C18_Witness ==
    /\ nextId > MaxNotes
    /\ DOMAIN notes = { MaxNotes }
    /\ DOMAIN fts = { MaxNotes }
    /\ fts[MaxNotes].title = notes[MaxNotes].title

----------------------------------------------------------------------------
(* The populate list: getAllNestedKeys over the tree of requested fields *)

MaxDepth == 2

\* scalar sub-fields requested inside one object
FlatLists == { <<>>, <<"id", "name">> }

\* names of the nested objects of one object, in the order of the request
FirstKey == "contact"
SecondKey == "location"

\* GraphQLMappedFields values nested at most depth levels deep; the keys of
\* nestedFields are kept in the order Object.keys returns them
RECURSIVE MappedFields(_)
MappedFields(depth) ==
    IF depth = 0
    THEN { [flatFields |-> f, nestedFields |-> <<>>] : f \in FlatLists }
    ELSE LET sub == MappedFields(depth - 1)
             nested ==
                 { <<>> }
                 \cup { << [key |-> FirstKey, value |-> t] >> : t \in sub }
                 \cup { << [key |-> FirstKey, value |-> t],
                           [key |-> SecondKey, value |-> u] >> : t, u \in sub }
         IN { [flatFields |-> f, nestedFields |-> n] :
                 f \in FlatLists, n \in nested }

\* the prefix argument: the default "" and the one of the tests
Prefixes == { "", "user." }

\* nestedFieldKeys.map that also lists the scalar fields of the object
nestedKeysWithFlatFields(fields, prefix) ==
    [i \in 1 .. Len(fields.nestedFields) |->
        prefix \o fields.nestedFields[i].key]
    \o [i \in 1 .. Len(fields.flatFields) |-> prefix \o fields.flatFields[i]]

\* nestedFieldKeys.map that drops the prefix
nestedKeysWithoutPrefix(fields, prefix) ==
    [i \in 1 .. Len(fields.nestedFields) |-> fields.nestedFields[i].key]

\* nestedFieldKeys.map((key) => `${prefix}${key}`)
nestedKeysWithPrefix(fields, prefix) ==
    [i \in 1 .. Len(fields.nestedFields) |->
        prefix \o fields.nestedFields[i].key]

RECURSIVE getAllNestedKeys(_, _), nestedKeysFrom(_, _, _)

\* the for loop over Object.keys(fields.nestedFields), from the i-th key on
nestedKeysFrom(fields, prefix, i) ==
    IF i > Len(fields.nestedFields) THEN <<>>
    ELSE LET key == fields.nestedFields[i].key
             nestedField == fields.nestedFields[i].value
         IN getAllNestedKeys(nestedField, prefix \o key \o ".")
            \o nestedKeysFrom(fields, prefix, i + 1)

getAllNestedKeys(fields, prefix) ==
    nestedKeysFrom(fields, prefix, 1) \o nestedKeysWithPrefix(fields, prefix)

InitKeys ==
    /\ notes = << >>
    /\ nextId = 1
    /\ noteTags = {}
    /\ fts = << >>
    /\ req = NoCall
    /\ ids = <<>>
    /\ fetched = <<>>
    /\ result = NoCall
    /\ pc = "idle"
    /\ log = <<>>
    /\ total = 0
    /\ pgTotal = 0
    /\ pgLimit = 1
    /\ pgOffset = 0
    /\ pgHas = FALSE
    /\ matchPhrase = <<>>
    /\ matchSql = <<>>
    /\ mappedFields \in MappedFields(MaxDepth)
    /\ populatedValues = NoKeys
    /\ fieldValues = NoValues
    /\ views = {}
    /\ nextViewId = 1
    /\ viewNotes = {}
    /\ ret = NoReturn
    /\ tx = NoTx

\* const populatedValues = getAllNestedKeys(mappedFields, prefix)
PopulateKeys ==
    /\ ~populatedValues.def
    /\ \E prefix \in Prefixes :
          populatedValues' =
              [def |-> TRUE, prefix |-> prefix,
               val |-> getAllNestedKeys(mappedFields, prefix)]
    /\ UNCHANGED <<dbVars, callVars, pgVars, matchPhrase, matchSql, mappedFields,
                   fieldValues, writeVars>>

SpecKeys == InitKeys /\ [][PopulateKeys]_vars

\* the nested objects of a tree, each as the sequence of keys leading to it
RECURSIVE NestedPaths(_)
NestedPaths(fields) ==
    UNION { { << fields.nestedFields[i].key >> }
            \cup { << fields.nestedFields[i].key >> \o p :
                      p \in NestedPaths(fields.nestedFields[i].value) } :
            i \in 1 .. Len(fields.nestedFields) }

\* the keys of a path joined by dots
RECURSIVE Dotted(_)
Dotted(path) ==
    IF Len(path) = 1 THEN path[1]
    ELSE path[1] \o "." \o Dotted(Tail(path))

\* the populate entry expected for a nested object
PathOf(path) == populatedValues.prefix \o Dotted(path)

\* C19: the populate list is empty when no nested object is requested, and
\* otherwise holds exactly one entry for each requested nested object path,
\* whatever scalar sub-fields are requested: no duplicates, and as many
\* entries as there are nested objects at all depths
C19_OneEntryPerNestedObject ==
    populatedValues.def =>
        LET keys == populatedValues.val
            paths == NestedPaths(mappedFields)
        IN /\ (mappedFields.nestedFields = <<>> => keys = <<>>)
           /\ Len(keys) = Cardinality(paths)
           /\ Cardinality(Range(keys)) = Len(keys)
           /\ Range(keys) = { PathOf(p) : p \in paths }

\* two sibling objects, the first with two scalar sub-fields and a nested
\* object of its own: three or more entries, none for the scalars
C19_Witness ==
    /\ populatedValues.def
    /\ Len(mappedFields.nestedFields) = 2
    /\ Len(mappedFields.nestedFields[1].value.flatFields) = 2
    /\ mappedFields.nestedFields[1].value.nestedFields # <<>>
    /\ Len(populatedValues.val) >= 3

\* position of a key among the nested objects of one object
KeyIndex(fields, key) ==
    CHOOSE i \in 1 .. Len(fields.nestedFields) :
        fields.nestedFields[i].key = key

\* the object a path leads to
RECURSIVE NodeAt(_, _)
NodeAt(fields, path) ==
    IF path = <<>> THEN fields
    ELSE NodeAt(fields.nestedFields[KeyIndex(fields, path[1])].value,
                Tail(path))

ParentOf(path) == SubSeq(path, 1, Len(path) - 1)

\* q is nested, at any depth, inside p
NestedInside(q, p) ==
    /\ Len(q) > Len(p)
    /\ SubSeq(q, 1, Len(p)) = p

\* q is requested after p inside the same object
LaterSibling(p, q) ==
    /\ Len(p) = Len(q)
    /\ ParentOf(p) = ParentOf(q)
    /\ KeyIndex(NodeAt(mappedFields, ParentOf(p)), p[Len(p)])
          < KeyIndex(NodeAt(mappedFields, ParentOf(q)), q[Len(q)])

\* the entry of p comes earlier in the populate list than the entry of q
EntryBefore(p, q) ==
    \E i, j \in 1 .. Len(populatedValues.val) :
        /\ i < j
        /\ populatedValues.val[i] = PathOf(p)
        /\ populatedValues.val[j] = PathOf(q)

\* objects nested inside p come before p
ChildrenBeforeParent ==
    \A p, q \in NestedPaths(mappedFields) :
        NestedInside(q, p) => EntryBefore(q, p)

\* an entry at depth > 0 is the entry of its parent, a dot, and the key
DottedPrefix ==
    \A q \in NestedPaths(mappedFields) :
        Len(q) > 1 =>
            \E i, j \in 1 .. Len(populatedValues.val) :
                /\ populatedValues.val[i] = PathOf(ParentOf(q))
                /\ populatedValues.val[j]
                      = populatedValues.val[i] \o "." \o q[Len(q)]

\* C20 as stated: children come before their parent, an entry at depth > 0
\* is the parent's entry, a dot and the key, and a parent comes before its
\* later siblings and before everything nested inside them
C20_ParentBeforeSiblingSubtrees ==
    populatedValues.def =>
        /\ ChildrenBeforeParent
        /\ DottedPrefix
        /\ \A p, q \in NestedPaths(mappedFields) :
              LaterSibling(p, q) =>
                  /\ EntryBefore(p, q)
                  /\ \A r \in NestedPaths(mappedFields) :
                        NestedInside(r, q) => EntryBefore(p, r)

\* C20 amended: children come before their parent, an entry at depth > 0 is
\* the parent's entry, a dot and the key, and a parent comes before its
\* later siblings but after everything nested inside them
C20_ParentBeforeSiblings ==
    populatedValues.def =>
        /\ ChildrenBeforeParent
        /\ DottedPrefix
        /\ \A p, q \in NestedPaths(mappedFields) :
              LaterSibling(p, q) =>
                  /\ EntryBefore(p, q)
                  /\ \A r \in NestedPaths(mappedFields) :
                        NestedInside(r, q) => EntryBefore(r, p)

\* two siblings below the root, each with a nested object of its own, and
\* the list computed for them
C20_Witness ==
    /\ populatedValues.def
    /\ Len(mappedFields.nestedFields) = 2
    /\ mappedFields.nestedFields[1].value.nestedFields # <<>>
    /\ mappedFields.nestedFields[2].value.nestedFields # <<>>
    /\ Len(populatedValues.val) >= 4

----------------------------------------------------------------------------
(* The field list: getFlattenFields over the tree of requested fields *)

\* scalar fields requested inside one object
LeafLists ==
    { <<>>, <<"viewNoteId", "name">>, <<"sourceId", "sourceName", "viewId">> }

SourceKey == "source"
ViewKey == "view"

\* GraphQLMappedFields values with leaf fields, nested at most depth levels
RECURSIVE FieldTrees(_)
FieldTrees(depth) ==
    IF depth = 0
    THEN { [flatFields |-> f, nestedFields |-> <<>>] : f \in LeafLists }
    ELSE LET sub == FieldTrees(depth - 1)
             nested ==
                 { <<>> }
                 \cup { << [key |-> SourceKey, value |-> t] >> : t \in sub }
                 \cup { << [key |-> SourceKey, value |-> t],
                           [key |-> ViewKey, value |-> u] >> : t, u \in sub }
         IN { [flatFields |-> f, nestedFields |-> n] :
                 f \in LeafLists, n \in nested }

\* the rootIdFieldReplacement argument: the default "" and viewNoteId
RootIdFieldReplacements == { "", "viewNoteId" }

\* String.prototype.startsWith / endsWith
startsWith(text, searchString) ==
    /\ Len(searchString) <= Len(text)
    /\ SubSeq(text, 1, Len(searchString)) = searchString

endsWith(text, searchString) ==
    /\ Len(searchString) <= Len(text)
    /\ SubSeq(text, Len(text) - Len(searchString) + 1, Len(text)) = searchString

\* String.prototype.split("."): the pieces between the dots
RECURSIVE split(_)
split(text) ==
    LET dots == { i \in 1 .. Len(text) : SubSeq(text, i, i) = "." }
    IN IF dots = {} THEN << text >>
       ELSE LET first == CHOOSE i \in dots : \A j \in dots : i <= j
            IN << SubSeq(text, 1, first - 1) >>
               \o split(SubSeq(text, first + 1, Len(text)))

\* the map callback that renames every field ending in "Id"
flattenFieldAnyId(field, prefix, rootIdFieldReplacement) ==
    LET parts == split(prefix)
    IN IF Len(parts) > 1
       THEN IF endsWith(field, "Id") THEN prefix \o "id" ELSE prefix \o field
       ELSE IF field = rootIdFieldReplacement THEN "id" ELSE prefix \o field

\* the callback of fields.flatFields.map
flattenField(field, prefix, rootIdFieldReplacement) ==
    LET parts == split(prefix)
    IN IF Len(parts) > 1
       THEN LET currentKey == parts[Len(parts) - 1]
            IN IF startsWith(field, currentKey) /\ endsWith(field, "Id")
               THEN prefix \o "id"
               ELSE prefix \o field
       ELSE IF field = rootIdFieldReplacement THEN "id" ELSE prefix \o field

RECURSIVE getFlattenFields(_, _, _), flattenNestedFrom(_, _, _)

\* the for loop over fields.nestedFields, from the i-th key on; the recursive
\* call leaves rootIdFieldReplacement at its default ""
flattenNestedFrom(fields, prefix, i) ==
    IF i > Len(fields.nestedFields) THEN <<>>
    ELSE LET key == fields.nestedFields[i].key
             nestedPrefix == prefix \o key \o "."
         IN getFlattenFields(fields.nestedFields[i].value, nestedPrefix, "")
            \o flattenNestedFrom(fields, prefix, i + 1)

getFlattenFields(fields, prefix, rootIdFieldReplacement) ==
    [i \in 1 .. Len(fields.flatFields) |->
        flattenField(fields.flatFields[i], prefix, rootIdFieldReplacement)]
    \o flattenNestedFrom(fields, prefix, 1)

InitFlatten ==
    /\ notes = << >>
    /\ nextId = 1
    /\ noteTags = {}
    /\ fts = << >>
    /\ req = NoCall
    /\ ids = <<>>
    /\ fetched = <<>>
    /\ result = NoCall
    /\ pc = "idle"
    /\ log = <<>>
    /\ total = 0
    /\ pgTotal = 0
    /\ pgLimit = 1
    /\ pgOffset = 0
    /\ pgHas = FALSE
    /\ matchPhrase = <<>>
    /\ matchSql = <<>>
    /\ mappedFields \in FieldTrees(MaxDepth)
    /\ populatedValues = NoKeys
    /\ fieldValues = NoValues
    /\ views = {}
    /\ nextViewId = 1
    /\ viewNotes = {}
    /\ ret = NoReturn
    /\ tx = NoTx

\* const fieldValues = getFlattenFields(mappedFields, prefix, alias)
FlattenFields ==
    /\ ~fieldValues.def
    /\ \E prefix \in Prefixes, alias \in RootIdFieldReplacements :
          fieldValues' =
              [def |-> TRUE, prefix |-> prefix,
               rootIdFieldReplacement |-> alias,
               val |-> getFlattenFields(mappedFields, prefix, alias)]
    /\ UNCHANGED <<dbVars, callVars, pgVars, matchPhrase, matchSql, mappedFields,
                   populatedValues, writeVars>>

SpecFlatten == InitFlatten /\ [][FlattenFields]_vars

\* the requested leaf fields: those of the object itself, then those of each
\* nested object in turn, each with the keys leading to its object
RECURSIVE Leaves(_, _)
Leaves(fields, path) ==
    LET RECURSIVE Below(_)
        Below(i) ==
            IF i > Len(fields.nestedFields) THEN <<>>
            ELSE Leaves(fields.nestedFields[i].value,
                        Append(path, fields.nestedFields[i].key))
                 \o Below(i + 1)
    IN [i \in 1 .. Len(fields.flatFields) |->
           [path |-> path, name |-> fields.flatFields[i]]]
       \o Below(1)

\* the dotted path of an object, ending in a dot
RECURSIVE DottedPath(_)
DottedPath(path) ==
    IF path = <<>> THEN "" ELSE path[1] \o "." \o DottedPath(Tail(path))

\* the name the claim gives to one leaf
EmittedName(leaf) ==
    LET context == fieldValues.prefix \o DottedPath(leaf.path)
        object == IF leaf.path # <<>> THEN leaf.path[Len(leaf.path)]
                  ELSE SubSeq(fieldValues.prefix, 1,
                              Len(fieldValues.prefix) - 1)
    IN IF context = ""
       THEN IF leaf.name = fieldValues.rootIdFieldReplacement
            THEN "id" ELSE leaf.name
       ELSE IF startsWith(leaf.name, object) /\ endsWith(leaf.name, "Id")
            THEN context \o "id"
            ELSE context \o leaf.name

\* C21: getFlattenFields emits one entry for each requested leaf field, the
\* fields of the root first and then those of each nested object under its
\* dotted path; at the root the identity alias becomes "id", inside an object
\* K a leaf starting with K and ending in "Id" becomes "<path>.id", every
\* other field keeps its name, and the alias is never applied inside a
\* nested or prefixed context
C21_LeavesOnceRenamed ==
    fieldValues.def =>
        LET leaves == Leaves(mappedFields, <<>>)
        IN /\ Len(fieldValues.val) = Len(leaves)
           /\ \A i \in 1 .. Len(leaves) :
                 /\ fieldValues.val[i] = EmittedName(leaves[i])
                 /\ (leaves[i].path # <<>> \/ fieldValues.prefix # "")
                       => fieldValues.val[i] # "id"

\* the alias at the root, foreign-key leaves inside the objects source and
\* view, and the alias name again inside a nested source, flattened with the
\* alias set
C21_Witness ==
    /\ fieldValues.def
    /\ fieldValues.prefix = ""
    /\ fieldValues.rootIdFieldReplacement = "viewNoteId"
    /\ "id" \in Range(fieldValues.val)
    /\ "source.id" \in Range(fieldValues.val)
    /\ "source.source.viewNoteId" \in Range(fieldValues.val)
    /\ "view.id" \in Range(fieldValues.val)

----------------------------------------------------------------------------
(* Specification of the note mutations alone *)

NextNotes ==
    \/ \E input \in NoteInputs, id \in SaveIds : SaveNote(input, id)
    \/ \E id \in 1 .. MaxNotes : DeleteNote(id)
    \/ \E interval \in Intervals : DeleteNotesInInterval(interval)
    \/ \E noteId \in 1 .. MaxNotes, tagIds \in TagLists :
          AssociateTagsWithNote(noteId, tagIds)
    \/ Reply

SpecNotes == Init /\ [][NextNotes]_vars

\* a step in which the mutation op answers
Answers(op) == ~ret.def /\ ret'.def /\ ret'.op = op

\* C25: deleteNotesInInterval deletes exactly the notes dated from fromDate
\* (the epoch when absent) to toDate, both included, leaves every other note
\* and its tag associations as they were, and returns true; when the delete
\* fails it returns false and raises no error
C25_IntervalDelete ==
    [][Answers("deleteNotesInInterval") =>
        LET from == IF ret'.arg.fromDate.def THEN ret'.arg.fromDate.val ELSE 0
            to == ret'.arg.toDate
            kept == { n \in DOMAIN notes :
                        ~(from <= notes[n].date /\ notes[n].date <= to) }
        IN /\ ret'.ok
           /\ ret'.value \in BOOLEAN
           /\ ret'.value =>
                 /\ DOMAIN notes' = kept
                 /\ \A n \in kept : notes'[n] = notes[n]
                 /\ noteTags' = { nt \in noteTags : nt[1] \in kept }
           /\ ~ret'.value => UNCHANGED <<notes, noteTags>>]_vars

\* an interval with both ends given was deleted and answered true, and a
\* note outside it is still stored with its tags
C25_Witness ==
    /\ ret.def
    /\ ret.op = "deleteNotesInInterval"
    /\ ret.value
    /\ ret.arg.fromDate.def
    /\ ret.arg.fromDate.val = ret.arg.toDate
    /\ nextId = MaxNotes + 1
    /\ Cardinality(DOMAIN notes) = MaxNotes - 1
    /\ noteTags # {}

\* the id argument is a number greater than 0
IdPositive(id) == id.def /\ ~id.nan /\ id.val > 0

\* the row and the answer carry the values of the input
CarriesInput(row, flat, data) ==
    /\ row.internalId = data.internalId /\ flat.internalId = data.internalId
    /\ row.title = data.title /\ flat.title = data.title
    /\ row.body = data.body /\ flat.body = data.body
    /\ row.source = data.sourceId /\ flat.sourceId = data.sourceId
    /\ row.language = data.languageId /\ flat.languageId = data.languageId
    /\ row.date = data.date /\ flat.date = data.date

----------------------------------------------------------------------------
(* Claims about the empty id page and the page flag *)

\* C27: in Branch B, when the id-page query returns no id, searchNotes does
\* not issue the row fetch and returns items = [] with the totalCount and
\* hasNextPage of the text-match resolver
C27_EmptyIdsSkipFetch ==
    (pc = "done" /\ result.def /\ result.branch = "B" /\ ids = <<>>) =>
        /\ "rows" \notin Range(log)
        /\ result.items = <<>>
        /\ result.totalCount = total
        /\ result.hasNextPage
              = calcHasMorePages(total, req.in.limit, req.in.offset)

\* C28 as stated: for every totalCount, limit >= 1 and offset, multiples of
\* limit or not, hasNextPage is true exactly when offset + limit < totalCount
C28_FlagIffItemsBeyond ==
    pgHas = (pgOffset + pgLimit < pgTotal)

\* C28 amended: hasNextPage is true exactly when the end of the page-aligned
\* page holding offset lies before totalCount; for an offset that is a
\* multiple of limit this is offset + limit < totalCount
C28_FlagIffAlignedPageEnds ==
    /\ pgHas = (((pgOffset \div pgLimit) * pgLimit) + pgLimit < pgTotal)
    /\ (pgOffset % pgLimit = 0) => (pgHas = (pgOffset + pgLimit < pgTotal))

\* an offset inside a page: the flag is set although the items end with the
\* current page
C28_Witness ==
    /\ pgOffset % pgLimit # 0
    /\ pgOffset < pgTotal
    /\ pgOffset + pgLimit >= pgTotal
    /\ pgHas

----------------------------------------------------------------------------
(* Views and the association mutations, statement by statement *)

MaxViews == 2

\* saveView(data, id): insert when id is absent, else findOneOrFail; the
\* columns of a view other than its id play no part in the associations
SaveView(id) ==
    /\ Idle
    /\ \/ /\ ~IsUpdate(id)
          /\ nextViewId <= MaxViews
          /\ views' = views \cup { nextViewId }
          /\ nextViewId' = nextViewId + 1
          /\ ret' = Returned("saveView", id, nextViewId)
       \/ /\ IsUpdate(id)
          /\ id.val \in views
          /\ ret' = Returned("saveView", id, id.val)
          /\ UNCHANGED <<views, nextViewId>>
       \/ /\ IsUpdate(id)
          /\ id.val \notin views
          /\ ret' = Thrown("saveView", id, "NotFoundError")
          /\ UNCHANGED <<views, nextViewId>>
    /\ UNCHANGED dbVars
    /\ UNCHANGED callVars
    /\ UNCHANGED <<pgVars, fnVars, viewNotes, tx>>

\* deleteView(id); view_note rows go with ON DELETE CASCADE
DeleteView(id) ==
    /\ Idle
    /\ \/ /\ id \in views
          /\ views' = views \ { id }
          /\ viewNotes' = ViewNotesKept(viewNotes, {}, { id })
          /\ ret' = Returned("deleteView", id, TRUE)
       \/ /\ id \notin views
          /\ ret' = Thrown("deleteView", id, "View not found")
          /\ UNCHANGED <<views, viewNotes>>
    /\ UNCHANGED dbVars
    /\ UNCHANGED callVars
    /\ UNCHANGED <<pgVars, fnVars, nextViewId, tx>>

TagsOp == "associateTagsWithNote"
NotesOp == "associateNotesWithView"

\* the owner exists: findOne(Note, noteId) / findOne(View, viewId)
OwnerFound(op, owner) ==
    IF op = TagsOp THEN owner \in DOMAIN notes ELSE owner \in views

\* the ids found by find(Tag, $in) / find(Note, $in)
MembersFound(op) ==
    IF op = TagsOp THEN Tags ELSE DOMAIN notes

\* the association tables as the transaction sees them
Tables == [noteTags |-> noteTags, viewNotes |-> viewNotes]

\* nativeDelete that removes nothing
PreviousKept(tables, op, owner) == tables

\* nativeDelete(NoteTag, {note}) / nativeDelete(ViewNote, {view})
PreviousRemoved(tables, op, owner) ==
    IF op = TagsOp
    THEN [tables EXCEPT !.noteTags = { nt \in @ : nt[1] # owner }]
    ELSE [tables EXCEPT !.viewNotes = { vn \in @ : vn.view # owner }]

\* insertMany(NoteTag, noteTags) / insertMany(ViewNote, viewNotes)
Inserted(tables, op, owner, members) ==
    IF op = TagsOp
    THEN [tables EXCEPT !.noteTags =
             @ \cup { <<owner, members[i]>> : i \in DOMAIN members }]
    ELSE [tables EXCEPT !.viewNotes =
             @ \cup { [view |-> owner, note |-> members[i],
                       displayOrder |-> i] : i \in DOMAIN members }]

\* a rollback that keeps what the transaction wrote
RolledBackNothing(tables, saved) == tables

\* em.rollback(): the tables are as they were at begin()
RolledBack(tables, saved) == saved

\* the error of a failed existence check
MissingError(idList) == [what |-> "missing", ids |-> idList]

\* the error of a statement that fails in the storage
StorageError == [what |-> "storage", ids |-> <<>>]

TxArg == [owner |-> tx.owner, members |-> tx.members]

\* the mutation is over: the transaction record keeps whether it is still
\* open and how many times it was ended
TxOver(open, ends) ==
    [pc |-> "over", open |-> open, ends |-> ends, saved |-> tx.saved]

\* const ids = ...; await ctx.em.begin()
BeginAssociation(op, owner, members) ==
    /\ Idle
    /\ tx' = [pc |-> "findOwner", open |-> TRUE, ends |-> 0, op |-> op,
              owner |-> owner, members |-> members, saved |-> Tables]
    /\ UNCHANGED dbVars
    /\ UNCHANGED callVars
    /\ UNCHANGED <<pgVars, fnVars, viewVars, ret>>

\* findOne of the note / view; rollback and throw when it is not there
FindOwner ==
    /\ tx.pc = "findOwner"
    /\ IF OwnerFound(tx.op, tx.owner)
       THEN /\ tx' = [tx EXCEPT !.pc = "findMembers"]
            /\ UNCHANGED ret
       ELSE /\ tx' = TxOver(FALSE, tx.ends + 1)
            /\ ret' = Thrown(tx.op, TxArg, MissingError(<< tx.owner >>))
    /\ UNCHANGED dbVars
    /\ UNCHANGED callVars
    /\ UNCHANGED <<pgVars, fnVars, viewVars>>

\* find of the tags / notes; rollback and throw when some are not there
FindMembers ==
    /\ tx.pc = "findMembers"
    /\ LET missing == missingIds(tx.members, MembersFound(tx.op))
       IN IF missing = <<>>
          THEN /\ tx' = [tx EXCEPT !.pc = "delete"]
               /\ UNCHANGED ret
          ELSE /\ tx' = TxOver(FALSE, tx.ends + 1)
               /\ ret' = Thrown(tx.op, TxArg, MissingError(missing))
    /\ UNCHANGED dbVars
    /\ UNCHANGED callVars
    /\ UNCHANGED <<pgVars, fnVars, viewVars>>

\* try: nativeDelete of the previous associations of the owner
DeletePrevious ==
    /\ tx.pc = "delete"
    /\ LET after == PreviousRemoved(Tables, tx.op, tx.owner)
       IN /\ noteTags' = after.noteTags
          /\ viewNotes' = after.viewNotes
    /\ tx' = [tx EXCEPT !.pc = "insert"]
    /\ UNCHANGED <<notes, nextId, fts>>
    /\ UNCHANGED callVars
    /\ UNCHANGED <<pgVars, fnVars, views, nextViewId, ret>>

\* try: insertMany of the new associations; the unique (owner, member)
\* index rejects a repeated member, the catch rolls back and returns false
InsertAssociations ==
    /\ tx.pc = "insert"
    /\ IF HasDuplicates(tx.members)
       THEN LET after == RolledBack(Tables, tx.saved)
            IN /\ noteTags' = after.noteTags
               /\ viewNotes' = after.viewNotes
               /\ tx' = TxOver(FALSE, tx.ends + 1)
               /\ ret' = Returned(tx.op, TxArg, FALSE)
       ELSE LET after == Inserted(Tables, tx.op, tx.owner, tx.members)
            IN /\ noteTags' = after.noteTags
               /\ viewNotes' = after.viewNotes
               /\ tx' = [tx EXCEPT !.pc = "commit"]
               /\ UNCHANGED ret
    /\ UNCHANGED <<notes, nextId, fts>>
    /\ UNCHANGED callVars
    /\ UNCHANGED <<pgVars, fnVars, views, nextViewId>>

\* try: em.commit(); return true
CommitAssociations ==
    /\ tx.pc = "commit"
    /\ tx' = TxOver(FALSE, tx.ends + 1)
    /\ ret' = Returned(tx.op, TxArg, TRUE)
    /\ UNCHANGED dbVars
    /\ UNCHANGED callVars
    /\ UNCHANGED <<pgVars, fnVars, viewVars>>

\* the statement the mutation is awaiting fails in the storage: inside the
\* try block the catch rolls back and returns false; the two existence
\* checks run before the try block, so their failure leaves the function
\* with the transaction still open
AssociationStmtFails ==
    /\ tx.pc \in { "findOwner", "findMembers", "delete", "insert", "commit" }
    /\ IF tx.pc \in { "findOwner", "findMembers" }
       THEN /\ tx' = TxOver(TRUE, tx.ends)
            /\ ret' = Thrown(tx.op, TxArg, StorageError)
            /\ UNCHANGED <<noteTags, viewNotes>>
       ELSE LET after == RolledBack(Tables, tx.saved)
            IN /\ noteTags' = after.noteTags
               /\ viewNotes' = after.viewNotes
               /\ tx' = TxOver(FALSE, tx.ends + 1)
               /\ ret' = Returned(tx.op, TxArg, FALSE)
    /\ UNCHANGED <<notes, nextId, fts>>
    /\ UNCHANGED callVars
    /\ UNCHANGED <<pgVars, fnVars, views, nextViewId>>

\* the answer of an association mutation reaches its caller; a transaction
\* that was ended frees the connection, one left open keeps it
ReplyAssociation ==
    /\ ret.def
    /\ tx.pc = "over"
    /\ ret' = NoReturn
    /\ tx' = IF tx.open THEN tx ELSE NoTx
    /\ UNCHANGED dbVars
    /\ UNCHANGED callVars
    /\ UNCHANGED <<pgVars, fnVars, viewVars>>

\* notes saved while associations are exercised: two notes, dated at the
\* two ends of the date range
AssocNoteInputs == { i \in NoteInputs : i.internalId \in { "n1", "n4" } }

\* a member id that no tag and no note has
NoMember == MaxNotes + Cardinality(Tags) + 1

MemberLists ==
    { <<>>, <<1>>, <<2, 1>>, <<1, 1>>, <<1, NoMember>>, <<NoMember, 2, NoMember>> }

NextAssoc ==
    \/ \E input \in AssocNoteInputs : SaveNote(input, AbsentId)
    \/ \E id \in 1 .. MaxNotes : DeleteNote(id)
    \/ \E interval \in Intervals : DeleteNotesInInterval(interval)
    \/ \E id \in { AbsentId, NumId(1) } : SaveView(id)
    \/ \E id \in 1 .. MaxViews : DeleteView(id)
    \/ \E op \in { TagsOp, NotesOp }, owner \in 1 .. MaxNotes + 1,
          members \in MemberLists : BeginAssociation(op, owner, members)
    \/ FindOwner
    \/ FindMembers
    \/ DeletePrevious
    \/ InsertAssociations
    \/ CommitAssociations
    \/ AssociationStmtFails
    \/ ReplyAssociation
    \/ Reply

SpecAssoc == Init /\ [][NextAssoc]_vars

----------------------------------------------------------------------------
(* Claims about associations, cascades and transactions *)

\* the associations of one owner / of all the other owners
OfOwner(tables, op, owner) ==
    IF op = TagsOp
    THEN { nt[2] : nt \in { r \in tables.noteTags : r[1] = owner } }
    ELSE { vn.note : vn \in { r \in tables.viewNotes : r.view = owner } }

RowsOfOwner(tables, op, owner) ==
    IF op = TagsOp
    THEN { r \in tables.noteTags : r[1] = owner }
    ELSE { r \in tables.viewNotes : r.view = owner }

OfOthers(tables, op, owner) ==
    IF op = TagsOp
    THEN [noteTags |-> { r \in tables.noteTags : r[1] # owner },
          viewNotes |-> tables.viewNotes]
    ELSE [noteTags |-> tables.noteTags,
          viewNotes |-> { r \in tables.viewNotes : r.view # owner }]

TablesAfter == [noteTags |-> noteTags', viewNotes |-> viewNotes']

\* a step in which an association mutation answers
AssociationAnswers ==
    ~ret.def /\ ret'.def /\ ret'.op \in { TagsOp, NotesOp }

\* C22: after a successful associateNotesWithView / associateTagsWithNote the
\* associations of that view / note are exactly the ones of the input: the
\* previous ones are gone, there is one per input entry, and those of every
\* other view / note are as before the call
C22_AssociationsReplaced ==
    [][(AssociationAnswers /\ ret'.ok /\ ret'.value = TRUE) =>
        LET op == ret'.op
            owner == ret'.arg.owner
            members == ret'.arg.members
        IN /\ OfOwner(TablesAfter, op, owner) = Range(members)
           /\ Cardinality(RowsOfOwner(TablesAfter, op, owner)) = Len(members)
           /\ OfOthers(TablesAfter, op, owner) = OfOthers(tx.saved, op, owner)]_vars

\* view 1 held notes, was given a different list, and the call answered true
\* while view 2 holds a note
C22_Witness ==
    /\ ret.def
    /\ ret.op = NotesOp
    /\ ret.ok
    /\ ret.value = TRUE
    /\ ret.arg.owner = 1
    /\ ret.arg.members = <<1>>
    /\ tx.pc = "over"
    /\ Cardinality(RowsOfOwner(tx.saved, NotesOp, 1)) = 2
    /\ RowsOfOwner(Tables, NotesOp, 2) # {}

\* the answer reports a statement that failed in the storage
StorageFailed(answer) ==
    IF answer.ok THEN FALSE ELSE answer.value.what = "storage"

\* C23: when the view / note of the call does not exist, or a referenced
\* note / tag does not exist, the call fails with an error that names exactly
\* the missing ids, the transaction is rolled back, and the associations
\* are the same as before the call (answers to a statement that failed in
\* the storage are left aside)
C23_MissingIdsRejected ==
    [][LET op == ret'.op
           owner == ret'.arg.owner
           members == ret'.arg.members
           noOwner == ~OwnerFound(op, owner)
           missing == { m \in Range(members) : m \notin MembersFound(op) }
       IN (/\ AssociationAnswers
           /\ noOwner \/ missing # {}
           /\ ~StorageFailed(ret')) =>
             /\ ~ret'.ok
             /\ ret'.value.what = "missing"
             /\ noOwner => ret'.value.ids = << owner >>
             /\ ~noOwner => Range(ret'.value.ids) = missing
             /\ ~tx'.open
             /\ tx'.ends = 1
             /\ TablesAfter = tx.saved]_vars

\* a call naming an existing note and a missing tag was refused while the
\* note holds tags
C23_Witness ==
    /\ ret.def
    /\ ret.op = TagsOp
    /\ ~ret.ok
    /\ ret.value.what = "missing"
    /\ ret.value.ids = << NoMember, NoMember >>
    /\ ret.arg.owner \in DOMAIN notes
    /\ RowsOfOwner(Tables, TagsOp, ret.arg.owner) # {}

\* a step in which a delete mutation answers true
DeleteAnswers ==
    /\ ~ret.def
    /\ ret'.def
    /\ ret'.op \in { "deleteNote", "deleteNotesInInterval", "deleteView" }
    /\ ret'.ok
    /\ ret'.value = TRUE

\* C24: no note-tag and no view-note association refers to a note or a view
\* that is gone: deleting a note removes its tag and view associations,
\* deleting a view removes its view-note associations, and the associations
\* of the notes and views that stay are kept
C24_NoDanglingAssociation ==
    [][/\ \A nt \in noteTags' : nt[1] \in DOMAIN notes'
       /\ \A vn \in viewNotes' :
             vn.note \in DOMAIN notes' /\ vn.view \in views'
       /\ DeleteAnswers =>
             /\ noteTags' = { nt \in noteTags : nt[1] \in DOMAIN notes' }
             /\ viewNotes' = { vn \in viewNotes :
                                 vn.note \in DOMAIN notes' /\ vn.view \in views' }]_vars

\* a note that was in a view was deleted; the view still holds the other
\* note, and that note holds a tag
C24_Witness ==
    /\ ret.def
    /\ ret.op = "deleteNote"
    /\ ret.ok
    /\ ret.arg \notin DOMAIN notes
    /\ nextId = MaxNotes + 1
    /\ Cardinality(viewNotes) = 1
    /\ noteTags # {}

\* C29: every transaction begun by an association mutation is ended exactly
\* once, by a commit or a rollback, before the mutation returns or throws,
\* also when a statement of the existence checks fails in the storage
C29_TransactionEndedOnce ==
    (ret.def /\ ret.op \in { TagsOp, NotesOp }) =>
        (~tx.open /\ tx.ends = 1)

\* C30: when the insert of the new associations fails after the previous
\* ones were deleted, the mutation rolls back, returns false, and the
\* associations stored before the call are still there
C30_ReplaceIsAtomic ==
    [][(AssociationAnswers /\ tx.pc = "insert") =>
        /\ ret'.ok
        /\ ret'.value = FALSE
        /\ ~tx'.open
        /\ tx'.ends = 1
        /\ TablesAfter = tx.saved]_vars

\* a list naming note 1 twice was refused with false and view 1 still holds
\* the two notes it held
C30_Witness ==
    /\ ret.def
    /\ ret.op = NotesOp
    /\ ret.ok
    /\ ret.value = FALSE
    /\ ret.arg.members = <<1, 1>>
    /\ Cardinality(RowsOfOwner(Tables, NotesOp, ret.arg.owner)) = 2

====
